---------------------------- MODULE Spec2Model ----------------------------
(***************************************************************************)
(* A model of async_chess_client: the Board typestate machine              *)
(* (chess/boards/board.rs), the synchronisation worker                     *)
(* (net/list_refresher.rs) with its per-command sub-tasks, and the         *)
(* controller (binaries/piston_and_egui/game.rs, piston.rs).               *)
(*                                                                         *)
(* Option<T> is modelled as a sequence: <<>> is None, <<v>> is Some(v).    *)
(***************************************************************************)
EXTENDS Integers, Sequences, FiniteSets, TLC

VARIABLES
    board,            \* ChessGame.board: the BoardContainer (Either Left/Right is board.state)
    last_pressed,     \* ChessGame.last_pressed (ex_last_pressed is only ever written)
    ctl,              \* position of the controller thread (piston_main)
    cmdQ,             \* channel controller -> worker (MessageToWorker)
    evQ,              \* channel worker -> controller (MessageToGame)
    wk,               \* position of the worker's supervisory thread (run_loop)
    tasks,            \* the sub-tasks spawned by run_loop that have not finished
    update_req_inflight,
    move_req_inflight,
    reqwest_error_at_last_refresh,
    last_did,         \* refresh_timer.last_did
    now,              \* the clock (Instant::now()), in milliseconds
    snap,             \* history of BoardSpec: the board just before the most recent make_move
    lastOp,           \* history of BoardSpec: the last Board operation and its argument
    preview,          \* history: the squares and captured list a previewed move replaced
    lastErr,          \* history: how the most recent update_list (or Board operation) ended
    ulLog,            \* history: the last UpdateList commands run_loop has handled
    refLog            \* history: the last refreshes that completed, in completion order

vars == <<board, last_pressed, ctl, cmdQ, evQ, wk, tasks,
          update_req_inflight, move_req_inflight, reqwest_error_at_last_refresh,
          last_did, now, snap, lastOp, preview, lastErr, ulLog, refLog>>

ctlVars == <<board, last_pressed, ctl, snap, lastOp, preview, lastErr>>
wkVars == <<wk, tasks, update_req_inflight, move_req_inflight,
            reqwest_error_at_last_refresh, last_did, ulLog, refLog>>

-----------------------------------------------------------------------------
(* Bounds of the model *)

\* most commands waiting in the controller -> worker channel
MaxQueue == 2
\* most events waiting in the worker -> controller channel
MaxEvents == 1
\* most events waiting in that channel where only refreshes run (RefreshSpec)
MaxBacklog == 2
\* most sub-tasks alive at once
MaxLive == 2
\* most UpdateList commands remembered in ulLog
MaxUL == 2
\* most completed refreshes remembered in refLog
MaxRef == 1
\* the clock stops here (milliseconds)
MaxClock == 600
\* one step of the clock (milliseconds)
ClockStep == 300
\* longest captured list a commit may extend
MaxTaken == 2

-----------------------------------------------------------------------------
(* Option *)

None == <<>>
Some(v) == <<v>>
IsSome(o) == o # <<>>
Unwrap(o) == o[1]

-----------------------------------------------------------------------------
(* chess/chess_piece.rs, chess/coords.rs *)

ChessPieceKind == {"Bishop", "Knight", "Pawn", "Queen", "King", "Rook"}

\* ChessPieceKind::iter(): the variants in declaration order
KindIter == <<"Bishop", "Knight", "Pawn", "Queen", "King", "Rook">>

ChessPiece(kind, is_white) == [kind |-> kind, is_white |-> is_white]

\* TryFrom<String> for ChessPieceKind, on a trimmed lower-case string
KindTryFrom(s) ==
    CASE s = "bishop" -> Some("Bishop")
      [] s = "knight" -> Some("Knight")
      [] s = "pawn" -> Some("Pawn")
      [] s = "queen" -> Some("Queen")
      [] s = "king" -> Some("King")
      [] s = "rook" -> Some("Rook")
      [] OTHER -> None

\* Display for ChessPieceKind followed by the to_lowercase of KindTryFrom
KindToLower(k) ==
    CASE k = "Bishop" -> "bishop"
      [] k = "Knight" -> "knight"
      [] k = "Pawn" -> "pawn"
      [] k = "Queen" -> "queen"
      [] k = "King" -> "king"
      [] k = "Rook" -> "rook"

OffBoard == [on |-> FALSE, x |-> 0, y |-> 0]
OnBoard(x, y) == [on |-> TRUE, x |-> x, y |-> y]

\* TryFrom<(i32, i32)> taking every pair outside the board for OffBoard
CoordsTryFromI32_lenient(x, y) ==
    IF x < 0 \/ x > 7 \/ y < 0 \/ y > 7 THEN Some(OffBoard)
    ELSE Some(OnBoard(x, y))

\* TryFrom<(i32, i32)> for Coords: Ok(coords) as Some, Err as None
CoordsTryFromI32(x, y) ==
    IF x = -1 /\ y = -1 THEN Some(OffBoard)
    ELSE IF x < 0 \/ x > 7 \/ y < 0 \/ y > 7 THEN None
    ELSE Some(OnBoard(x, y))

\* TryFrom<(u32, u32)> for Coords
CoordsTryFromU32(x, y) ==
    IF x > 7 \/ y > 7 THEN None ELSE Some(OnBoard(x, y))

\* From<(u8, u8)> for Coords: the pair is wrapped as it is
CoordsFromU8(x, y) == OnBoard(x, y)

\* Coords::to_usize: y * 8 + x in u8 arithmetic
to_usize(c) == IF c.on THEN Some((c.y * 8 + c.x) % 256) ELSE None

-----------------------------------------------------------------------------
(* net/server_interface.rs *)

JSONPiece(x, y, kind, is_white) == [x |-> x, y |-> y, kind |-> kind, is_white |-> is_white]

JSONMove(x, y, nx, ny) == [x |-> x, y |-> y, nx |-> nx, ny |-> ny]

current_coords(m) == CoordsTryFromU32(m.x, m.y)
new_coords(m) == CoordsTryFromU32(m.nx, m.ny)

EmptyPieces == [i \in 0..63 |-> None]

\* One turn of the loop of into_game_list (lines 44-65): r is the result so far
\* (ok is FALSE once a `?` or bail! has returned), p the next piece
IntoGameListStep(r, p) ==
    LET kind == KindTryFrom(p.kind)
        coords == CoordsTryFromI32(p.x, p.y)
        us == to_usize(Unwrap(coords))
        piece == ChessPiece(Unwrap(kind), p.is_white)
        bad == [ok |-> FALSE, pieces |-> EmptyPieces, taken |-> <<>>]
    IN  IF ~r.ok THEN bad
        ELSE IF ~IsSome(kind) THEN bad
        ELSE IF ~IsSome(coords) THEN bad
        ELSE IF IsSome(us)
             THEN IF Unwrap(us) \notin 0..63 THEN bad
                  ELSE IF IsSome(r.pieces[Unwrap(us)]) THEN bad
                  ELSE [r EXCEPT !.pieces[Unwrap(us)] = Some(piece)]
             ELSE [r EXCEPT !.taken = Append(r.taken, piece)]

\* The loop of into_game_list over the pieces lo..hi of l, r being the result
\* of the turns before lo: the turns of the first half, then (unless one of them
\* has returned the error) the turns of the second half
RECURSIVE IntoGameListRange(_, _, _, _)
IntoGameListRange(l, r, lo, hi) ==
    IF lo > hi THEN r
    ELSE IF lo = hi THEN IntoGameListStep(r, l[lo])
    ELSE LET mid == (lo + hi) \div 2
             left == IntoGameListRange(l, r, lo, mid)
         IN  IF left.ok THEN IntoGameListRange(l, left, mid + 1, hi) ELSE left

\* JSONPieceList::into_game_list
into_game_list(l) ==
    IntoGameListRange(l, [ok |-> TRUE, pieces |-> EmptyPieces, taken |-> <<>>], 1, Len(l))

-----------------------------------------------------------------------------
(* chess/boards/board.rs *)

CanMovePiece == "CanMovePiece"
NeedsMoveUpdate == "NeedsMoveUpdate"

\* Default for Board<CanMovePiece>
DefaultBoard ==
    [pieces |-> EmptyPieces, taken |-> <<>>, previous |-> None, state |-> CanMovePiece]

\* new_json leaving out the pieces the list gives as captured
new_json_drops_taken(l) ==
    LET r == into_game_list(l)
    IN  IF r.ok
        THEN Some([DefaultBoard EXCEPT !.pieces = r.pieces])
        ELSE None

\* new_json building a board from whatever into_game_list returns
new_json_ignores_error(l) ==
    LET r == into_game_list(l)
    IN  Some([DefaultBoard EXCEPT !.pieces = r.pieces, !.taken = r.taken])

\* Board::new_json: Ok(board) as Some, Err as None
new_json(l) ==
    LET r == into_game_list(l)
    IN  IF r.ok
        THEN Some([DefaultBoard EXCEPT !.pieces = r.pieces, !.taken = r.taken])
        ELSE None

\* Board::piece_exists_at_location
piece_exists_at_location(b, coords) ==
    LET c == to_usize(coords)
    IN  IF IsSome(c) THEN Unwrap(c) \in 0..63 /\ IsSome(b.pieces[Unwrap(c)]) ELSE FALSE

\* The square index of a conversion result that succeeded
SquareOf(oc) == Unwrap(to_usize(Unwrap(oc)))

\* Board::make_move: the cases that end in unwrap_log_error's process::exit
make_move_exits(b, m) ==
    \/ IsSome(b.previous)
    \/ ~IsSome(current_coords(m))
    \/ ~IsSome(new_coords(m))
    \/ ~IsSome(b.pieces[SquareOf(current_coords(m))])

\* The promotion test of Board::make_move (lines 147-152)
promotes(p, m) == (p.is_white /\ m.ny = 0) \/ (~p.is_white /\ m.ny = 7)

\* make_move without the promotion of lines 147-152
make_move_never_promotes(b, m) ==
    LET from == SquareOf(current_coords(m))
        to == SquareOf(new_coords(m))
        previous == Some([m |-> m, taken |-> b.pieces[to],
                          kind |-> Unwrap(b.pieces[from]).kind])
        old_current == b.pieces[from]
        p1 == [b.pieces EXCEPT ![from] = None]
        p2 == [p1 EXCEPT ![to] = old_current]
    IN  [pieces |-> p2, taken |-> b.taken, previous |-> previous,
         state |-> NeedsMoveUpdate]

\* Board::make_move, when it does not exit
make_move(b, m) ==
    LET from == SquareOf(current_coords(m))
        to == SquareOf(new_coords(m))
        previous == Some([m |-> m, taken |-> b.pieces[to],
                          kind |-> Unwrap(b.pieces[from]).kind])
        old_current == b.pieces[from]
        p1 == [b.pieces EXCEPT ![from] = None]
        p2 == [p1 EXCEPT ![to] = old_current]
        p3 == IF IsSome(p2[to]) /\ promotes(Unwrap(p2[to]), m)
              THEN [p2 EXCEPT ![to] = Some([Unwrap(p2[to]) EXCEPT !.kind = "Queen"])]
              ELSE p2
    IN  [pieces |-> p3, taken |-> b.taken, previous |-> previous,
         state |-> NeedsMoveUpdate]

\* Board::undo_move: the case that ends in process::exit
undo_move_exits(b) == ~IsSome(b.previous)

\* undo_move with the restoration of the original kind (lines 174-176) left out
undo_move_keeps_kind(b) ==
    LET prev == Unwrap(b.previous)
        from == SquareOf(current_coords(prev.m))
        to == SquareOf(new_coords(prev.m))
        p1 == [b.pieces EXCEPT ![from] = b.pieces[to]]
        p2 == [p1 EXCEPT ![to] = prev.taken]
    IN  [pieces |-> p2, taken |-> b.taken, previous |-> None, state |-> CanMovePiece]

\* Board::undo_move, when it does not exit
undo_move(b) ==
    LET prev == Unwrap(b.previous)
        from == SquareOf(current_coords(prev.m))
        to == SquareOf(new_coords(prev.m))
        p1 == [b.pieces EXCEPT ![from] = b.pieces[to]]
        p2 == [p1 EXCEPT ![to] = prev.taken]
        p3 == IF IsSome(p2[from])
              THEN [p2 EXCEPT ![from] = Some([Unwrap(p2[from]) EXCEPT !.kind = prev.kind])]
              ELSE p2
    IN  [pieces |-> p3, taken |-> b.taken, previous |-> None, state |-> CanMovePiece]

\* Board::move_worked: the case that ends in process::exit
move_worked_exits(b, taken) == taken /\ ~IsSome(b.previous)

\* move_worked with the else branch (line 204) left out
move_worked_keeps_previous(b, taken) ==
    IF taken
    THEN [pieces |-> b.pieces, taken |-> b.taken \o Unwrap(b.previous).taken,
          previous |-> None, state |-> CanMovePiece]
    ELSE [pieces |-> b.pieces, taken |-> b.taken, previous |-> b.previous,
          state |-> CanMovePiece]

\* move_worked pushing the piece now on the destination square instead of the cached one
move_worked_pushes_mover(b, taken) ==
    IF taken
    THEN [pieces |-> b.pieces,
          taken |-> b.taken \o b.pieces[SquareOf(new_coords(Unwrap(b.previous).m))],
          previous |-> None, state |-> CanMovePiece]
    ELSE [pieces |-> b.pieces, taken |-> b.taken, previous |-> None,
          state |-> CanMovePiece]

\* move_worked giving the piece on the destination the kind it had before the move
move_worked_restores_kind(b, taken) ==
    LET prev == Unwrap(b.previous)
        to == SquareOf(new_coords(prev.m))
        squares == IF IsSome(b.pieces[to])
                   THEN [b.pieces EXCEPT ![to] = Some([Unwrap(b.pieces[to]) EXCEPT
                                                          !.kind = prev.kind])]
                   ELSE b.pieces
    IN  [pieces |-> squares,
         taken |-> IF taken THEN b.taken \o prev.taken ELSE b.taken,
         previous |-> None, state |-> CanMovePiece]

\* Board::move_worked, when it does not exit
move_worked(b, taken) ==
    IF taken
    THEN [pieces |-> b.pieces, taken |-> b.taken \o Unwrap(b.previous).taken,
          previous |-> None, state |-> CanMovePiece]
    ELSE [pieces |-> b.pieces, taken |-> b.taken, previous |-> None,
          state |-> CanMovePiece]

-----------------------------------------------------------------------------
(* net/server_interface.rs: no_connection_list *)

NclSquares ==
    << <<0, 0>>, <<2, 0>>, <<5, 0>>, <<7, 0>>, <<0, 1>>, <<2, 1>>, <<5, 1>>, <<6, 1>>,
       <<7, 1>>, <<0, 2>>, <<1, 2>>, <<2, 2>>, <<5, 2>>, <<7, 2>>, <<0, 5>>, <<1, 5>>,
       <<2, 5>>, <<5, 5>>, <<7, 5>>, <<0, 6>>, <<2, 6>>, <<5, 6>>, <<6, 6>>, <<7, 6>>,
       <<0, 7>>, <<1, 7>>, <<2, 7>>, <<5, 7>>, <<7, 7>> >>

\* the closure p of no_connection_list
NclPiece(x, y) == JSONPiece(x, y, "rook", (x + y) % 2 = 1)

\* the list pushed by the loops of lines 114-129: per round, per kind, black then white
NclTakenList ==
    [i \in 1..24 |->
        JSONPiece(-1, -1, KindToLower(KindIter[(((i - 1) % 12) \div 2) + 1]),
                  (i - 1) % 2 = 1)]

NclList ==
    [i \in 1..Len(NclSquares) |-> NclPiece(NclSquares[i][1], NclSquares[i][2])]
        \o NclTakenList

\* no_connection_list (the list is valid, so unwrap_log_error never exits)
no_connection_list == Unwrap(new_json(NclList))

-----------------------------------------------------------------------------
(* The inputs the model draws from *)

\* piece lists the server may answer GET games/{id} with
ListA ==
    << JSONPiece(3, 6, "pawn", TRUE), JSONPiece(3, 0, "rook", FALSE),
       JSONPiece(4, 4, "pawn", FALSE), JSONPiece(-1, -1, "knight", TRUE) >>
ListB ==
    << JSONPiece(3, 6, "king", TRUE), JSONPiece(3, 7, "pawn", FALSE) >>
\* two pieces on one square
ListCollision ==
    << JSONPiece(3, 6, "pawn", TRUE), JSONPiece(3, 6, "rook", FALSE) >>

\* a kind that is not a chess piece
ListBadKind ==
    << JSONPiece(3, 6, "pawn", TRUE), JSONPiece(3, 0, "wizard", FALSE) >>
\* a coordinate off the 8 x 8 board that is not the captured marker (-1, -1)
ListOutOfRange ==
    << JSONPiece(3, 6, "pawn", TRUE), JSONPiece(8, 0, "rook", FALSE) >>

\* a negative coordinate that is not part of the captured marker (-1, -1)
ListNegative ==
    << JSONPiece(3, 6, "pawn", TRUE), JSONPiece(-1, 3, "rook", FALSE),
       JSONPiece(-1, -1, "knight", TRUE) >>

ValidLists == {ListA, ListB}
\* the lists whose kinds are chess pieces and whose squares hold one piece each
CoordLists == ValidLists \cup {ListOutOfRange, ListNegative}
InvalidLists == {ListCollision, ListBadKind, ListOutOfRange}
ServerLists == ValidLists \cup InvalidLists
\* the answers drawn when the whole program runs
SysLists == {ListA, ListCollision}
\* the answer drawn when the clock stands still
MoveLists == {ListA}

\* the coordinate pairs of the moves handed to the Board on its own
BoardCoords == { <<3, 6>>, <<3, 0>>, <<4, 4>>, <<3, 7>>, <<8, 0>> }
BoardMoves ==
    { JSONMove(f[1], f[2], t[1], t[2]) : f \in BoardCoords, t \in BoardCoords }

NoMove == JSONMove(0, 0, 0, 0)
Op(op, m, t) == [op |-> op, m |-> m, t |-> t]

-----------------------------------------------------------------------------
(* The state after construction *)

\* DoOnInterval::new: last_did = Instant::now() - gap * 2
Gap == 500

\* history: no previewed move awaits its outcome
NoPreview == [by |-> 0, pieces |-> EmptyPieces, taken |-> <<>>]

\* ChessGame::new, ListRefresher::new and the locals of run_loop
Init ==
    /\ board = DefaultBoard
    /\ last_pressed = OffBoard
    /\ ctl = "init"
    /\ cmdQ = <<>>
    /\ evQ = <<>>
    /\ wk = "recv"
    /\ tasks = <<>>
    /\ update_req_inflight = FALSE
    /\ move_req_inflight = FALSE
    /\ reqwest_error_at_last_refresh = FALSE
    /\ now = 0
    /\ last_did = 0 - Gap * 2
    /\ snap = DefaultBoard
    /\ lastOp = Op("default", NoMove, FALSE)
    /\ preview = NoPreview
    /\ lastErr = "none"
    /\ ulLog = <<>>
    /\ refLog = <<>>

-----------------------------------------------------------------------------
(* net/list_refresher.rs: messages *)

\* MessageToWorker
Cmd(type, m) == [type |-> type, m |-> m]

\* MessageToGame::UpdateBoard(BoardMessage); MoveOutcome is the field outcome
Ev(type, m, outcome, l) ==
    [type |-> type, m |-> m, outcome |-> outcome, l |-> l, by |-> 0]
TmpMove(m) == Ev("TmpMove", m, "none", <<>>)
Move(outcome) == Ev("Move", NoMove, outcome, <<>>)
UseExisting == Ev("UseExisting", NoMove, "none", <<>>)
NoConnectionList == Ev("NoConnectionList", NoMove, "none", <<>>)
NewList(l) == Ev("NewList", NoMove, "none", l)
NoEv == Ev("none", NoMove, "none", <<>>)

\* what the server may answer GET games/{id} with (Err: no response at all)
GetResponses == {"200", "208", "200_unparseable", "status_error", "transport_error"}

\* what the server may answer POST movepiece with: a success whose body does or
\* does not contain "not", a 304 (no body), error statuses, or no response
PostResponses == {"2xx_taken", "2xx_not_taken", "304", "412", "500", "transport_error"}

\* do_make_move lines 361-387: the outcome of a response. error_for_status is
\* an Err for 4xx and 5xx statuses only, so a 304 reaches line 366 with an
\* empty text, which does not contain "not"
OutcomeOf(rsp) ==
    CASE rsp \in {"2xx_taken", "304"} -> "Worked_true"
      [] rsp = "2xx_not_taken" -> "Worked_false"
      [] rsp = "412" -> "Invalid"
      [] OTHER -> "CouldntProcessMove"

\* a sub-task: the closure handed to std::thread::spawn and its position; rsp is
\* the answer its network call got, kept until the event for it is sent
Task(kind, pc, m) ==
    [kind |-> kind, pc |-> pc, m |-> m, msg |-> NoEv, fail |-> FALSE,
     unparsed |-> FALSE, tag |-> 0]

SetTask(i, t) == [tasks EXCEPT ![i] = t]
RemoveTask(i) == SubSeq(tasks, 1, i - 1) \o SubSeq(tasks, i + 1, Len(tasks))

\* the process is running: no process::exit yet, piston_main has not returned
Alive == ctl \notin {"dead", "joined"}

-----------------------------------------------------------------------------
(* util/time_based_structs/do_on_interval.rs *)

\* DoOnInterval<UpdateOnCheck>::can_do: the answer
can_do == now - last_did > Gap

\* can_do that forgets to restart the timer when it answers true
can_do_timer_forgets == last_did

\* DoOnInterval<UpdateOnCheck>::can_do: last_did afterwards
can_do_timer == IF can_do THEN now ELSE last_did

\* the clock moves on
Tick ==
    /\ Alive
    /\ now + ClockStep <= MaxClock
    /\ now' = now + ClockStep
    /\ UNCHANGED <<ctlVars, cmdQ, evQ, wkVars>>

-----------------------------------------------------------------------------
(* The Board on its own: every operation its typestate allows, on any input *)

\* Board::new_json replacing the container, as update_list line 331 does
BNewJson(l) ==
    /\ ctl # "dead"
    /\ IF IsSome(new_json(l))
       THEN /\ board' = Unwrap(new_json(l))
            /\ lastOp' = Op("new_json", NoMove, IsSome(board.previous))
            /\ lastErr' = "ok"
       ELSE /\ lastErr' = "new_json"
            /\ UNCHANGED <<board, lastOp>>
    /\ UNCHANGED <<last_pressed, ctl, cmdQ, evQ, wkVars, now, snap, preview>>

\* update_list lines 328-330: the board is replaced by no_connection_list()
BNoConnectionList ==
    /\ ctl # "dead"
    /\ board' = no_connection_list
    /\ lastOp' = Op("no_connection_list", NoMove, IsSome(board.previous))
    /\ lastErr' = "ok"
    /\ UNCHANGED <<last_pressed, ctl, cmdQ, evQ, wkVars, now, snap, preview>>

\* Board<CanMovePiece>::make_move
BMakeMove(m) ==
    /\ ctl # "dead"
    /\ board.state = CanMovePiece
    /\ IF make_move_exits(board, m)
       THEN /\ ctl' = "dead"
            /\ lastErr' = "exit"
            /\ UNCHANGED <<board, snap, lastOp>>
       ELSE /\ board' = make_move(board, m)
            /\ snap' = board
            /\ lastOp' = Op("make_move", m, FALSE)
            /\ lastErr' = "ok"
            /\ ctl' = ctl
    /\ UNCHANGED <<last_pressed, cmdQ, evQ, wkVars, now, preview>>

\* Board<NeedsMoveUpdate>::undo_move
BUndoMove ==
    /\ ctl # "dead"
    /\ board.state = NeedsMoveUpdate
    /\ IF undo_move_exits(board)
       THEN /\ ctl' = "dead"
            /\ lastErr' = "exit"
            /\ UNCHANGED <<board, lastOp>>
       ELSE /\ board' = undo_move(board)
            /\ lastOp' = Op("undo_move", lastOp.m, FALSE)
            /\ lastErr' = "ok"
            /\ ctl' = ctl
    /\ UNCHANGED <<last_pressed, cmdQ, evQ, wkVars, now, snap, preview>>

\* Board<NeedsMoveUpdate>::move_worked
BMoveWorked(taken) ==
    /\ ctl # "dead"
    /\ board.state = NeedsMoveUpdate
    /\ Len(board.taken) < MaxTaken
    /\ IF move_worked_exits(board, taken)
       THEN /\ ctl' = "dead"
            /\ lastErr' = "exit"
            /\ UNCHANGED <<board, lastOp>>
       ELSE /\ board' = move_worked(board, taken)
            /\ lastOp' = Op("move_worked", lastOp.m, taken)
            /\ lastErr' = "ok"
            /\ ctl' = ctl
    /\ UNCHANGED <<last_pressed, cmdQ, evQ, wkVars, now, snap, preview>>

BoardNext ==
    \/ \E l \in ServerLists : BNewJson(l)
    \/ BNoConnectionList
    \/ \E m \in BoardMoves : BMakeMove(m)
    \/ BUndoMove
    \/ \E taken \in BOOLEAN : BMoveWorked(taken)

BoardSpec == Init /\ [][BoardNext]_vars

\* the moves made between two lists: onto an empty square, onto a piece
ListMoves == { JSONMove(3, 6, 4, 4), JSONMove(3, 0, 3, 6), JSONMove(4, 4, 3, 7) }

\* The Board fed with lists that can only be wrong in their coordinates
ListNext ==
    \/ \E l \in CoordLists : BNewJson(l)
    \/ \E m \in ListMoves : BMakeMove(m)
    \/ BUndoMove
    \/ \E taken \in BOOLEAN : BMoveWorked(taken)

ListSpec == Init /\ [][ListNext]_vars

-----------------------------------------------------------------------------
(* Claims about the Board *)

\* C1: the pending snapshot (previous) is present exactly when the board is a
\* Board<NeedsMoveUpdate>: absent after Default, new_json, undo_move and
\* move_worked, present after make_move.
C1_PendingIffAwaiting ==
    /\ IsSome(board.previous) <=> board.state = NeedsMoveUpdate
    /\ lastOp.op \in {"default", "new_json", "no_connection_list", "undo_move", "move_worked"}
          => ~IsSome(board.previous) /\ board.state = CanMovePiece
    /\ lastOp.op = "make_move"
          => IsSome(board.previous) /\ board.state = NeedsMoveUpdate

C1_Witness ==
    /\ lastOp.op = "make_move"
    /\ board.state = NeedsMoveUpdate
    /\ IsSome(board.previous)

\* The squares of the move the last operation was about
FromSq == SquareOf(current_coords(lastOp.m))
ToSq == SquareOf(new_coords(lastOp.m))

\* C2: make_move(m) followed immediately by undo_move gives back the squares and
\* the captured list of the board before the move, for every move with a piece at
\* m.from (occupied destination, promotion and from = to included).
C2_RoundTrip ==
    lastOp.op = "undo_move" =>
        /\ board.pieces = snap.pieces
        /\ board.taken = snap.taken

\* a round trip of a promoting capture has happened
C2_Witness ==
    /\ lastOp.op = "undo_move"
    /\ lastOp.m = JSONMove(3, 6, 3, 0)
    /\ board.pieces[SquareOf(Some(OnBoard(3, 6)))] = Some(ChessPiece("Pawn", TRUE))
    /\ board.pieces[SquareOf(Some(OnBoard(3, 0)))] = Some(ChessPiece("Rook", FALSE))

\* the piece make_move leaves on the destination: the moved piece, a Queen of its
\* colour when it arrived on its last rank
Arrived(p, m) == IF promotes(p, m) THEN [p EXCEPT !.kind = "Queen"] ELSE p

\* C3 as claimed: make_move(m) then move_worked(true) leaves the moved piece at
\* m.to, leaves m.from empty and appends exactly one piece to captured.
C3_AsClaimed ==
    (lastOp.op = "move_worked" /\ lastOp.t) =>
        /\ board.pieces[ToSq] = Some(Arrived(Unwrap(snap.pieces[FromSq]), lastOp.m))
        /\ board.pieces[FromSq] = None
        /\ Len(board.taken) = Len(snap.taken) + 1

\* C3 as amended: make_move(m) then move_worked(true) leaves the moved piece at
\* m.to, leaves m.from empty when from # to, changes no other square, and appends
\* to captured the piece that stood on m.to before the move: one piece when the
\* destination was occupied, none when it was empty.
C3_CommitCaptured ==
    (lastOp.op = "move_worked" /\ lastOp.t) =>
        /\ board.pieces[ToSq] = Some(Arrived(Unwrap(snap.pieces[FromSq]), lastOp.m))
        /\ FromSq # ToSq => board.pieces[FromSq] = None
        /\ \A i \in 0..63 : i \notin {FromSq, ToSq} => board.pieces[i] = snap.pieces[i]
        /\ board.taken = snap.taken \o snap.pieces[ToSq]
        /\ Len(board.taken) = Len(snap.taken) + (IF IsSome(snap.pieces[ToSq]) THEN 1 ELSE 0)

\* a capture has been committed
C3_Witness ==
    /\ lastOp.op = "move_worked"
    /\ lastOp.t
    /\ FromSq # ToSq
    /\ IsSome(snap.pieces[ToSq])
    /\ Len(board.taken) = Len(snap.taken) + 1

\* the piece the last make_move moved, as it stood before the move
Moved == Unwrap(snap.pieces[FromSq])

\* the last move took its piece to the last rank of the piece's colour
OnLastRank == (Moved.is_white /\ lastOp.m.ny = 0) \/ (~Moved.is_white /\ lastOp.m.ny = 7)

\* C24: make_move taking a white pawn to y = 0 or a black pawn to y = 7 leaves a
\* Queen of that colour on the destination, and undo_move right after it puts a
\* Pawn of that colour back on the origin.
C24_PromotionAndRollback ==
    /\ (lastOp.op = "make_move" /\ Moved.kind = "Pawn" /\ OnLastRank)
          => board.pieces[ToSq] = Some(ChessPiece("Queen", Moved.is_white))
    /\ (lastOp.op = "undo_move" /\ Moved.kind = "Pawn" /\ OnLastRank)
          => board.pieces[FromSq] = Some(ChessPiece("Pawn", Moved.is_white))

\* a black pawn has been taken to y = 7 from another square, and the move undone
C24_Witness ==
    /\ lastOp.op = "undo_move"
    /\ lastOp.m = JSONMove(4, 4, 3, 7)
    /\ Moved = ChessPiece("Pawn", FALSE)
    /\ board.pieces[FromSq] = Some(ChessPiece("Pawn", FALSE))

\* C25: move_worked changes no square, and with taken = false it leaves the
\* captured list as it was: only the pending snapshot and the state change. A
\* white pawn moved from (3,6) to (3,0) is still a white Queen on (3,0) after it.
C25_CommitFrame ==
    [][\A taken \in BOOLEAN :
          (BMoveWorked(taken) /\ ctl' # "dead") =>
              /\ board'.pieces = board.pieces
              /\ ~taken => board'.taken = board.taken
              /\ board'.previous = None
              /\ board'.state = CanMovePiece
              /\ (lastOp.m = JSONMove(3, 6, 3, 0) /\ Moved = ChessPiece("Pawn", TRUE))
                     => board'.pieces[ToSq] = Some(ChessPiece("Queen", TRUE))]_vars

\* the promoting move of a white pawn from (3,6) to (3,0) has been committed
C25_Witness ==
    /\ lastOp.op = "move_worked"
    /\ ~lastOp.t
    /\ lastOp.m = JSONMove(3, 6, 3, 0)
    /\ Moved = ChessPiece("Pawn", TRUE)
    /\ board.pieces[ToSq] = Some(ChessPiece("Queen", TRUE))
    /\ board.taken = snap.taken

\* C26: make_move changes the kind of the moved piece only when it is a pawn
\* arriving on its last rank: a piece of any other kind keeps its kind, also on
\* y = 0 as white or y = 7 as black.
C26_OnlyPawnsPromote ==
    (lastOp.op = "make_move" /\ Moved.kind # "Pawn")
        => board.pieces[ToSq] = Some(Moved)

\* C12: a piece list with an out-of-range coordinate, an unknown kind or two
\* pieces on one square never enters the Board: new_json refuses it, and after
\* the controller has processed it the squares, the captured list, the pending
\* snapshot and the board state are what they were, and the process runs on.
C12_InvalidListRejected ==
    [][\A l \in InvalidLists :
          BNewJson(l) =>
              /\ ~IsSome(new_json(l))
              /\ board' = board
              /\ ctl' = ctl
              /\ lastErr' = "new_json"]_vars

\* a list has been refused while a move was pending, and the move still is
C12_Witness ==
    /\ lastErr = "new_json"
    /\ ctl # "dead"
    /\ board.state = NeedsMoveUpdate
    /\ IsSome(board.previous)
    /\ lastOp.op = "make_move"

\* the piece a JSONPiece of a valid list stands for
PieceOfJson(p) == ChessPiece(Unwrap(KindTryFrom(p.kind)), p.is_white)

\* the squares a valid list l describes: on each square the piece l places there
SquaresOfList(l) ==
    [sq \in 0..63 |->
        LET here == { k \in 1..Len(l) : l[k].x \in 0..7 /\ l[k].y \in 0..7
                                          /\ l[k].y * 8 + l[k].x = sq }
        IN  IF here = {} THEN None ELSE Some(PieceOfJson(l[CHOOSE k \in here : TRUE]))]

\* the captured pieces a valid list l describes: its off-board pieces, in order
CapturedOfList(l) ==
    LET off(p) == p.x = -1 /\ p.y = -1
        rest == SelectSeq(l, off)
    IN  [k \in 1..Len(rest) |-> PieceOfJson(rest[k])]

\* board b is ready, has no pending move, and has exactly the given squares and
\* captured list
Shows(b, squares, captured) ==
    /\ b.state = CanMovePiece
    /\ b.previous = None
    /\ b.pieces = squares
    /\ b.taken = captured

\* what the placeholder list describes
PlaceholderSquares == SquaresOfList(NclList)
PlaceholderCaptured == CapturedOfList(NclList)

\* C15: a valid NewList, or NoConnectionList, processed in either board state
\* leaves a ready board with no pending move whose squares and captured list are
\* exactly those of the list (of the placeholder list): a pending move is dropped.
C15_ListReplacesBoard ==
    [][/\ \A l \in ValidLists :
              BNewJson(l) => Shows(board', SquaresOfList(l), CapturedOfList(l))
       /\ BNoConnectionList => Shows(board', PlaceholderSquares, PlaceholderCaptured)]_vars

\* a valid list has replaced a board with a move pending, captured pieces included
C15_Witness ==
    /\ lastOp.op = "new_json"
    /\ lastOp.t
    /\ lastErr = "ok"
    /\ Shows(board, SquaresOfList(ListA), CapturedOfList(ListA))
    /\ board.taken # <<>>

\* a piece of a list lies outside the 8 x 8 board
OutOfRange(p) == p.x \notin 0..7 \/ p.y \notin 0..7

\* the pieces of l outside the board, in order
OutOfRangeOfList(l) ==
    LET rest == SelectSeq(l, OutOfRange)
    IN  [k \in 1..Len(rest) |-> PieceOfJson(rest[k])]

\* l has a piece outside the board that is not at the captured marker (-1, -1)
HasStray(l) ==
    \E k \in 1..Len(l) : OutOfRange(l[k]) /\ ~(l[k].x = -1 /\ l[k].y = -1)

\* C28 as stated: every piece of a list with a negative or out-of-range x or y,
\* not only one at (-1, -1), goes to the captured list and onto no square, and
\* the list is accepted.
C28_OutOfRangeIsCaptured ==
    [][\A l \in CoordLists :
          BNewJson(l) =>
              /\ IsSome(new_json(l))
              /\ board'.pieces = SquaresOfList(l)
              /\ board'.taken = OutOfRangeOfList(l)]_vars

\* C28: only a piece at (-1, -1) is off board and goes to the captured list; a
\* list with any other negative or out-of-range coordinate is refused as a
\* whole and the board stays as it was.
C28_OnlyMarkerIsCaptured ==
    [][\A l \in CoordLists :
          BNewJson(l) =>
              IF HasStray(l)
              THEN /\ ~IsSome(new_json(l))
                   /\ board' = board
                   /\ lastErr' = "new_json"
              ELSE /\ board'.pieces = SquaresOfList(l)
                   /\ board'.taken = CapturedOfList(l)]_vars

\* a list with a stray coordinate has been refused by a board that shows the
\* captured knight of the list before it
C28_Witness ==
    /\ lastErr = "new_json"
    /\ lastOp.op = "new_json"
    /\ board.pieces = SquaresOfList(ListA)
    /\ board.taken = <<ChessPiece("Knight", TRUE)>>

-----------------------------------------------------------------------------
(* chess/coords.rs on its own: every constructor of Coords, on any input *)

\* the i32 pairs handed to TryFrom<(i32, i32)>
I32Values == {-2, -1, 0, 3, 7, 8}
\* the u32 pairs handed to TryFrom<(u32, u32)>
U32Values == {0, 3, 7, 8, 32}
\* the u8 pairs handed to From<(u8, u8)>
U8Values == (0..9) \cup {31, 32, 255}

\* Coords::try_from((x, y)) on a pair of i32
CTryFromI32(x, y) ==
    /\ IF IsSome(CoordsTryFromI32(x, y))
       THEN /\ last_pressed' = Unwrap(CoordsTryFromI32(x, y))
            /\ lastErr' = "ok"
       ELSE /\ lastErr' = "try_from"
            /\ UNCHANGED last_pressed
    /\ lastOp' = Op("try_from_i32", NoMove, FALSE)
    /\ UNCHANGED <<board, ctl, cmdQ, evQ, wkVars, now, snap, preview>>

\* Coords::try_from((x, y)) on a pair of u32
CTryFromU32(x, y) ==
    /\ IF IsSome(CoordsTryFromU32(x, y))
       THEN /\ last_pressed' = Unwrap(CoordsTryFromU32(x, y))
            /\ lastErr' = "ok"
       ELSE /\ lastErr' = "try_from"
            /\ UNCHANGED last_pressed
    /\ lastOp' = Op("try_from_u32", NoMove, FALSE)
    /\ UNCHANGED <<board, ctl, cmdQ, evQ, wkVars, now, snap, preview>>

\* Coords::from((x, y)) on a pair of u8
CFromU8(x, y) ==
    /\ last_pressed' = CoordsFromU8(x, y)
    /\ lastErr' = "ok"
    /\ lastOp' = Op("from_u8", NoMove, FALSE)
    /\ UNCHANGED <<board, ctl, cmdQ, evQ, wkVars, now, snap, preview>>

CoordsNext ==
    \/ \E x \in I32Values, y \in I32Values : CTryFromI32(x, y)
    \/ \E x \in U32Values, y \in U32Values : CTryFromU32(x, y)
    \/ \E x \in U8Values, y \in U8Values : CFromU8(x, y)

CoordsSpec == Init /\ [][CoordsNext]_vars

-----------------------------------------------------------------------------
(* Claims about Coords (CoordsSpec) *)

\* C27: every Coords::OnBoard(x, y) that a constructor returns (TryFrom on
\* i32 pairs, TryFrom on u32 pairs, From on u8 pairs) has x and y in 0..7, so
\* that y * 8 + x is in 0..63 and to_usize computes it without leaving 8 bits.
C27_OnBoardInRange ==
    last_pressed.on =>
        /\ last_pressed.x \in 0..7
        /\ last_pressed.y \in 0..7
        /\ last_pressed.y * 8 + last_pressed.x \in 0..63
        /\ to_usize(last_pressed) = Some(last_pressed.y * 8 + last_pressed.x)

-----------------------------------------------------------------------------
(* binaries/piston_and_egui/game.rs: the controller *)

\* squares the user clicks on when the whole program runs
ClickSquares == { OnBoard(3, 6), OnBoard(3, 0) }
\* the square the user clicks on when the clock stands still: the second click
\* on a selected piece asks for the move from = to
MoveSquares == { OnBoard(3, 6) }

\* update_list lines 304-335: how the match on event e ends when the board is b
\* ("exit": process::exit inside make_move; any other error is returned by
\* bail! or `?`, and the callers in piston_main only log it)
\* history: the preview after event e was taken with outcome err of the match.
\* An accepted TmpMove records the board it replaced and the sub-task that sent
\* it; the record ends with that sub-task's outcome or a replacement of the board
preview_after(b, e, err) ==
    CASE e.type = "TmpMove" /\ err = "ok" ->
            [by |-> e.by, pieces |-> b.pieces, taken |-> b.taken]
      [] e.type \in {"NewList", "NoConnectionList"} /\ err = "ok" -> NoPreview
      [] e.type = "Move" /\ e.by = preview.by -> NoPreview
      [] OTHER -> preview

update_list_err(b, e) ==
    CASE e.type = "TmpMove" ->
            IF b.state = CanMovePiece
            THEN IF make_move_exits(b, e.m) THEN "exit" ELSE "ok"
            ELSE "need move update"
      [] e.type = "Move" ->
            IF b.state = NeedsMoveUpdate THEN "ok" ELSE "need move to update with outcome"
      [] e.type = "NewList" ->
            IF IsSome(new_json(e.l)) THEN "ok" ELSE "new_json"
      [] OTHER -> "ok"

\* the match of update_list clearing the board on UseExisting
accepted_board_clears_on_use_existing(b, e) ==
    CASE e.type = "TmpMove" -> make_move(b, e.m)
      [] e.type = "Move" ->
            IF e.outcome = "Worked_true" THEN move_worked(b, TRUE)
            ELSE IF e.outcome = "Worked_false" THEN move_worked(b, FALSE)
            ELSE undo_move(b)
      [] e.type = "NoConnectionList" -> no_connection_list
      [] e.type = "NewList" -> Unwrap(new_json(e.l))
      [] OTHER -> DefaultBoard

\* update_list lines 306-335: the board an accepted event e leaves
accepted_board(b, e) ==
    CASE e.type = "TmpMove" -> make_move(b, e.m)
      [] e.type = "Move" ->
            IF e.outcome = "Worked_true" THEN move_worked(b, TRUE)
            ELSE IF e.outcome = "Worked_false" THEN move_worked(b, FALSE)
            ELSE undo_move(b)
      [] e.type = "NoConnectionList" -> no_connection_list
      [] e.type = "NewList" -> Unwrap(new_json(e.l))
      [] OTHER -> b

\* the match of update_list dropping the pending snapshot when it rejects an event
update_list_board_drops_pending(b, e) ==
    IF update_list_err(b, e) = "ok" THEN accepted_board(b, e)
    ELSE [b EXCEPT !.previous = None]

\* update_list lines 304-335: the board after the match on event e
update_list_board(b, e) ==
    IF update_list_err(b, e) = "ok" THEN accepted_board(b, e) ELSE b

\* ChessGame::update_list(ignore_timer), q being the command channel when it is
\* called and c the controller's position when it returns: one event at most is
\* taken, and the refresh command is sent unless the match ended in an error
update_list(ignore_timer, q, c) ==
    LET refresh == Cmd(IF ignore_timer THEN "UpdateNOW" ELSE "UpdateList", NoMove)
        err == IF evQ = <<>> THEN "ok" ELSE update_list_err(board, Head(evQ))
    IN  /\ evQ' = IF evQ = <<>> THEN evQ ELSE Tail(evQ)
        /\ board' = IF evQ = <<>> THEN board ELSE update_list_board(board, Head(evQ))
        /\ cmdQ' = IF err = "ok" THEN Append(q, refresh) ELSE q
        /\ ctl' = IF err = "exit" THEN "dead" ELSE c
        /\ lastErr' = err
        /\ preview' = IF evQ = <<>> THEN preview ELSE preview_after(board, Head(evQ), err)

\* piston_main line 40: the initial update
InitialUpdate ==
    /\ ctl = "init"
    /\ update_list(TRUE, cmdQ, "running")
    /\ UNCHANGED <<last_pressed, snap, lastOp, wkVars, now>>

\* piston_main lines 65-67 (update_args), and a press that is neither C, a right
\* click nor a click on the board (lines 82-83, 96, 99)
UpdateTick ==
    /\ ctl = "running"
    /\ Len(cmdQ) < MaxQueue
    /\ update_list(FALSE, cmdQ, "running")
    /\ UNCHANGED <<last_pressed, snap, lastOp, wkVars, now>>

\* piston_main lines 77-81, 99: Key::C, restart_board then update_list(true)
KeyC ==
    /\ ctl = "running"
    /\ Len(cmdQ) + 1 < MaxQueue
    /\ update_list(TRUE, Append(cmdQ, Cmd("RestartBoard", NoMove)), "running")
    /\ UNCHANGED <<last_pressed, snap, lastOp, wkVars, now>>

\* piston_main lines 87-88, 99: clear_mouse_input then update_list(false)
RightClick ==
    /\ ctl = "running"
    /\ Len(cmdQ) < MaxQueue
    /\ last_pressed' = OffBoard
    /\ update_list(FALSE, cmdQ, "running")
    /\ UNCHANGED <<snap, lastOp, wkVars, now>>

\* piston_main lines 89-94, 99: mouse_input on square sq, then update_list(true)
LeftClick(sq) ==
    /\ ctl = "running"
    /\ IF last_pressed.on
       THEN /\ Len(cmdQ) + 1 < MaxQueue
            /\ last_pressed' = OffBoard
            /\ update_list(TRUE,
                   Append(cmdQ, Cmd("MakeMove",
                       JSONMove(last_pressed.x, last_pressed.y, sq.x, sq.y))),
                   "running")
       ELSE /\ Len(cmdQ) < MaxQueue
            /\ last_pressed' = IF piece_exists_at_location(board, sq) THEN sq ELSE OffBoard
            /\ update_list(TRUE, cmdQ, "running")
    /\ UNCHANGED <<snap, lastOp, wkVars, now>>

\* ChessGame::render lines 262-285: a selection whose piece is gone is dropped
Render ==
    /\ ctl = "running"
    /\ last_pressed.on
    /\ ~piece_exists_at_location(board, last_pressed)
    /\ last_pressed' = OffBoard
    /\ UNCHANGED <<board, ctl, snap, lastOp, preview, lastErr, cmdQ, evQ,
                   wkVars, now>>

\* piston_main line 114: ChessGame::exit sends InvalidateKill; the game is dropped
Exit ==
    /\ ctl = "running"
    /\ cmdQ' = Append(cmdQ, Cmd("InvalidateKill", NoMove))
    /\ ctl' = "joining"
    /\ UNCHANGED <<board, last_pressed, snap, lastOp, preview, lastErr, evQ,
                   wkVars, now>>

\* a join that also waits for the sub-tasks run_loop spawned
Join_waits_for_subtasks ==
    /\ ctl = "joining"
    /\ wk = "done"
    /\ tasks = <<>>
    /\ ctl' = "joined"
    /\ UNCHANGED <<board, last_pressed, snap, lastOp, preview, lastErr, cmdQ,
                   evQ, wkVars, now>>

\* Drop for ListRefresher: the join returns once run_loop has, and main returns
Join ==
    /\ ctl = "joining"
    /\ wk = "done"
    /\ ctl' = "joined"
    /\ UNCHANGED <<board, last_pressed, snap, lastOp, preview, lastErr, cmdQ,
                   evQ, wkVars, now>>

-----------------------------------------------------------------------------
(* net/list_refresher.rs: run_loop, the supervisory thread *)

\* history: entry is remembered as the newest of at most n
Remember(log, n, entry) ==
    IF Len(log) < n THEN Append(log, entry) ELSE Append(Tail(log), entry)

\* Sender::send on the event channel never blocks. The model keeps at most cap
\* events; once the game has been dropped nothing receives any more, and what
\* is sent beyond cap is not kept
CanSend(cap) == Len(evQ) < cap \/ ctl = "joining"
Sent(e, cap) == IF Len(evQ) < cap THEN Append(evQ, e) ELSE evQ

\* run_loop may take the next command: the bound on live sub-tasks
CanRecv ==
    /\ Alive
    /\ wk = "recv"
    /\ cmdQ # <<>>
    /\ Len(tasks) < MaxLive

\* lines 150-187, UpdateNOW: the timer is not asked, a sub-task is spawned
RecvUpdateNOW ==
    /\ CanRecv
    /\ Head(cmdQ).type = "UpdateNOW"
    /\ cmdQ' = Tail(cmdQ)
    /\ tasks' = Append(tasks, Task("update", "load", NoMove))
    /\ UNCHANGED <<ctlVars, evQ, wk, update_req_inflight, move_req_inflight,
                   reqwest_error_at_last_refresh, last_did, ulLog, refLog, now>>

\* lines 150-187, UpdateList: dropped unless can_do, else a sub-task is spawned
RecvUpdateList ==
    /\ CanRecv
    /\ Head(cmdQ).type = "UpdateList"
    /\ cmdQ' = Tail(cmdQ)
    /\ last_did' = can_do_timer
    /\ ulLog' = Remember(ulLog, MaxUL, [at |-> now, pass |-> can_do])
    /\ tasks' = IF can_do THEN Append(tasks, Task("update", "load", NoMove)) ELSE tasks
    /\ UNCHANGED <<ctlVars, evQ, wk, update_req_inflight, move_req_inflight,
                   reqwest_error_at_last_refresh, refLog, now>>

\* lines 188-195, RestartBoard
RecvRestartBoard ==
    /\ CanRecv
    /\ Head(cmdQ).type = "RestartBoard"
    /\ cmdQ' = Tail(cmdQ)
    /\ tasks' = Append(tasks, Task("restart", "post", NoMove))
    /\ UNCHANGED <<ctlVars, evQ, wk, update_req_inflight, move_req_inflight,
                   reqwest_error_at_last_refresh, last_did, ulLog, refLog, now>>

\* lines 196-220, MakeMove
RecvMakeMove ==
    /\ CanRecv
    /\ Head(cmdQ).type = "MakeMove"
    /\ cmdQ' = Tail(cmdQ)
    /\ tasks' = Append(tasks, Task("move", "load", Head(cmdQ).m))
    /\ UNCHANGED <<ctlVars, evQ, wk, update_req_inflight, move_req_inflight,
                   reqwest_error_at_last_refresh, last_did, ulLog, refLog, now>>

\* InvalidateKill taken without leaving the loop
RecvInvalidateKill_keeps_receiving ==
    /\ Alive
    /\ wk = "recv"
    /\ cmdQ # <<>>
    /\ Head(cmdQ).type = "InvalidateKill"
    /\ cmdQ' = Tail(cmdQ)
    /\ UNCHANGED <<ctlVars, evQ, wk, tasks, update_req_inflight, move_req_inflight,
                   reqwest_error_at_last_refresh, last_did, ulLog, refLog, now>>

\* lines 221-224, InvalidateKill: do_invalidate_exit posts on this thread
RecvInvalidateKill ==
    /\ Alive
    /\ wk = "recv"
    /\ cmdQ # <<>>
    /\ Head(cmdQ).type = "InvalidateKill"
    /\ cmdQ' = Tail(cmdQ)
    /\ wk' = "invalidate"
    /\ UNCHANGED <<ctlVars, evQ, tasks, update_req_inflight, move_req_inflight,
                   reqwest_error_at_last_refresh, last_did, ulLog, refLog, now>>

\* do_invalidate_exit: POST invalidate returns (any result), the loop breaks
InvalidateReturns ==
    /\ Alive
    /\ wk = "invalidate"
    /\ wk' = "done"
    /\ UNCHANGED <<ctlVars, cmdQ, evQ, tasks, update_req_inflight, move_req_inflight,
                   reqwest_error_at_last_refresh, last_did, ulLog, refLog, now>>

-----------------------------------------------------------------------------
(* run_loop lines 176-186 and do_update_list: the refresh sub-task *)

IsAt(i, kind, pc) == Alive /\ i \in 1..Len(tasks) /\ tasks[i].kind = kind /\ tasks[i].pc = pc

\* the refresh sub-task telling the controller that a refresh is in flight
UpdLoad_reports_busy(i) ==
    /\ IsAt(i, "update", "load")
    /\ IF update_req_inflight
       THEN /\ CanSend(MaxBacklog)
            /\ evQ' = Sent(UseExisting, MaxBacklog)
            /\ tasks' = RemoveTask(i)
       ELSE /\ evQ' = evQ
            /\ tasks' = SetTask(i, [tasks[i] EXCEPT !.pc = "store"])
    /\ UNCHANGED <<ctlVars, cmdQ, wk, update_req_inflight, move_req_inflight,
                   reqwest_error_at_last_refresh, last_did, ulLog, refLog, now>>

\* line 177: update_req_inflight.load
UpdLoad(i) ==
    /\ IsAt(i, "update", "load")
    /\ tasks' = IF update_req_inflight
                THEN RemoveTask(i)
                ELSE SetTask(i, [tasks[i] EXCEPT !.pc = "store"])
    /\ UNCHANGED <<ctlVars, cmdQ, evQ, wk, update_req_inflight, move_req_inflight,
                   reqwest_error_at_last_refresh, last_did, ulLog, refLog, now>>

\* lines 178-181, 277-279: the guard is set and GET games/{id} is sent
UpdStore(i) ==
    /\ IsAt(i, "update", "store")
    /\ update_req_inflight' = TRUE
    /\ tasks' = SetTask(i, [tasks[i] EXCEPT !.pc = "get"])
    /\ UNCHANGED <<ctlVars, cmdQ, evQ, wk, move_req_inflight,
                   reqwest_error_at_last_refresh, last_did, ulLog, refLog, now>>

\* lines 281-308: the answer to GET games/{id} arrives
UpdGet(i, rsp, l) ==
    /\ IsAt(i, "update", "get")
    /\ CASE rsp = "200" ->
              /\ reqwest_error_at_last_refresh' = FALSE
              /\ tasks' = SetTask(i, [tasks[i] EXCEPT !.pc = "send", !.msg = NewList(l)])
         [] rsp = "208" ->
              /\ reqwest_error_at_last_refresh' = FALSE
              /\ tasks' = SetTask(i, [tasks[i] EXCEPT !.pc = "send", !.msg = UseExisting])
         [] rsp = "200_unparseable" ->
              /\ reqwest_error_at_last_refresh' = FALSE
              /\ tasks' = SetTask(i, [tasks[i] EXCEPT !.pc = "hyst_load", !.fail = TRUE,
                                                       !.unparsed = TRUE])
         [] OTHER ->
              /\ UNCHANGED reqwest_error_at_last_refresh
              /\ tasks' = SetTask(i, [tasks[i] EXCEPT !.pc = "hyst_load", !.fail = TRUE])
    /\ UNCHANGED <<ctlVars, cmdQ, evQ, wk, update_req_inflight, move_req_inflight,
                   last_did, ulLog, refLog, now>>

\* line 313: reqwest_error_at_last_refresh.load
UpdHystLoad(i) ==
    /\ IsAt(i, "update", "hyst_load")
    /\ IF reqwest_error_at_last_refresh
       THEN tasks' = SetTask(i, [tasks[i] EXCEPT !.pc = "send", !.msg = UseExisting])
       ELSE tasks' = SetTask(i, [tasks[i] EXCEPT !.pc = "hyst_store"])
    /\ UNCHANGED <<ctlVars, cmdQ, evQ, wk, update_req_inflight, move_req_inflight,
                   reqwest_error_at_last_refresh, last_did, ulLog, refLog, now>>

\* lines 317-319: reqwest_error_at_last_refresh.store(true)
UpdHystStore(i) ==
    /\ IsAt(i, "update", "hyst_store")
    /\ reqwest_error_at_last_refresh' = TRUE
    /\ tasks' = SetTask(i, [tasks[i] EXCEPT !.pc = "send", !.msg = NoConnectionList])
    /\ UNCHANGED <<ctlVars, cmdQ, evQ, wk, update_req_inflight, move_req_inflight,
                   last_did, ulLog, refLog, now>>

\* lines 324-327: the event is sent
UpdSend(i, cap) ==
    /\ IsAt(i, "update", "send")
    /\ CanSend(cap)
    /\ evQ' = Sent(tasks[i].msg, cap)
    /\ refLog' = Remember(refLog, MaxRef, tasks[i].fail)
    /\ tasks' = SetTask(i, [tasks[i] EXCEPT !.pc = "clear", !.unparsed = FALSE])
    /\ UNCHANGED <<ctlVars, cmdQ, wk, update_req_inflight, move_req_inflight,
                   reqwest_error_at_last_refresh, last_did, ulLog, now>>

\* line 183: update_req_inflight.store(false)
UpdClear(i) ==
    /\ IsAt(i, "update", "clear")
    /\ update_req_inflight' = FALSE
    /\ tasks' = SetTask(i, [tasks[i] EXCEPT !.pc = "timer"])
    /\ UNCHANGED <<ctlVars, cmdQ, evQ, wk, move_req_inflight,
                   reqwest_error_at_last_refresh, last_did, ulLog, refLog, now>>

\* the refresh sub-task ending without update_timer()
UpdTimer_keeps_timer(i) ==
    /\ IsAt(i, "update", "timer")
    /\ tasks' = RemoveTask(i)
    /\ UNCHANGED <<ctlVars, cmdQ, evQ, wk, update_req_inflight, move_req_inflight,
                   reqwest_error_at_last_refresh, last_did, ulLog, refLog, now>>

\* line 184: refresh_timer.update_timer(), and the sub-task ends
UpdTimer(i) ==
    /\ IsAt(i, "update", "timer")
    /\ last_did' = now
    /\ tasks' = RemoveTask(i)
    /\ UNCHANGED <<ctlVars, cmdQ, evQ, wk, update_req_inflight, move_req_inflight,
                   reqwest_error_at_last_refresh, ulLog, refLog, now>>

-----------------------------------------------------------------------------
(* run_loop lines 191-194 and do_restart_board: the restart sub-task *)

\* the answers to POST newgame: a success status, an error status, no answer
RestartResponses == {"2xx", "500", "transport_error"}

\* do_restart_board telling the controller how POST newgame ended
RestartPost_reports(i, rsp) ==
    /\ IsAt(i, "restart", "post")
    /\ CanSend(MaxEvents)
    /\ evQ' = Sent(IF rsp = "2xx" THEN UseExisting ELSE NoConnectionList, MaxEvents)
    /\ tasks' = RemoveTask(i)
    /\ UNCHANGED <<ctlVars, cmdQ, wk, update_req_inflight, move_req_inflight,
                   reqwest_error_at_last_refresh, last_did, ulLog, refLog, now>>

\* do_restart_board, lines 331-345: the answer rsp to POST newgame arrives,
\* each of the three arms only logs, and the sub-task ends
RestartPost(i, rsp) ==
    /\ IsAt(i, "restart", "post")
    /\ tasks' = RemoveTask(i)
    /\ UNCHANGED <<ctlVars, cmdQ, evQ, wk, update_req_inflight, move_req_inflight,
                   reqwest_error_at_last_refresh, last_did, ulLog, refLog, now>>

-----------------------------------------------------------------------------
(* run_loop lines 203-219 and do_make_move: the move sub-task *)

\* the move sub-task looking at the refresh guard as well
MoveLoad_shares_guard(i) ==
    /\ IsAt(i, "move", "load")
    /\ tasks' = SetTask(i, [tasks[i] EXCEPT
                   !.pc = IF move_req_inflight \/ update_req_inflight
                          THEN "reject" ELSE "store"])
    /\ UNCHANGED <<ctlVars, cmdQ, evQ, wk, update_req_inflight, move_req_inflight,
                   reqwest_error_at_last_refresh, last_did, ulLog, refLog, now>>

\* line 204: move_req_inflight.load
MoveLoad(i) ==
    /\ IsAt(i, "move", "load")
    /\ tasks' = SetTask(i, [tasks[i] EXCEPT
                   !.pc = IF move_req_inflight THEN "reject" ELSE "store"])
    /\ UNCHANGED <<ctlVars, cmdQ, evQ, wk, update_req_inflight, move_req_inflight,
                   reqwest_error_at_last_refresh, last_did, ulLog, refLog, now>>

\* lines 205-210: Move(CouldntProcessMove) is sent, and the sub-task ends
MoveReject(i) ==
    /\ IsAt(i, "move", "reject")
    /\ CanSend(MaxEvents)
    /\ evQ' = Sent(Move("CouldntProcessMove"), MaxEvents)
    /\ tasks' = RemoveTask(i)
    /\ UNCHANGED <<ctlVars, cmdQ, wk, update_req_inflight, move_req_inflight,
                   reqwest_error_at_last_refresh, last_did, ulLog, refLog, now>>

\* history: the mark of the next previewed move, one that no sub-task awaiting
\* the answer to its POST bears
FreeTag ==
    CHOOSE k \in 1..MaxLive : \A i \in 1..Len(tasks) : tasks[i].tag # k

\* history: event e marked as sent by sub-task i
SentBy(i, e) == [e EXCEPT !.by = tasks[i].tag]

\* line 212: move_req_inflight.store(true)
MoveStore(i) ==
    /\ IsAt(i, "move", "store")
    /\ move_req_inflight' = TRUE
    /\ tasks' = SetTask(i, [tasks[i] EXCEPT !.pc = "tmp"])
    /\ UNCHANGED <<ctlVars, cmdQ, evQ, wk, update_req_inflight,
                   reqwest_error_at_last_refresh, last_did, ulLog, refLog, now>>

\* do_make_move posting the move without sending TmpMove first
MoveTmp_silent(i) ==
    /\ IsAt(i, "move", "tmp")
    /\ tasks' = SetTask(i, [tasks[i] EXCEPT !.pc = "post", !.tag = FreeTag])
    /\ UNCHANGED <<ctlVars, cmdQ, evQ, wk, update_req_inflight, move_req_inflight,
                   reqwest_error_at_last_refresh, last_did, ulLog, refLog, now>>

\* lines 351-359: TmpMove(m) is sent, then POST movepiece
MoveTmp(i) ==
    /\ IsAt(i, "move", "tmp")
    /\ CanSend(MaxEvents)
    /\ evQ' = Sent([TmpMove(tasks[i].m) EXCEPT !.by = FreeTag], MaxEvents)
    /\ tasks' = SetTask(i, [tasks[i] EXCEPT !.pc = "post", !.tag = FreeTag])
    /\ UNCHANGED <<ctlVars, cmdQ, wk, update_req_inflight, move_req_inflight,
                   reqwest_error_at_last_refresh, last_did, ulLog, refLog, now>>

\* lines 361-387: the answer to POST movepiece arrives
MovePost(i, rsp) ==
    /\ IsAt(i, "move", "post")
    /\ OutcomeOf(rsp) = "Worked_true" => Len(board.taken) < MaxTaken
    /\ tasks' = SetTask(i, [tasks[i] EXCEPT !.pc = "send",
                                             !.msg = SentBy(i, Move(OutcomeOf(rsp)))])
    /\ UNCHANGED <<ctlVars, cmdQ, evQ, wk, update_req_inflight, move_req_inflight,
                   reqwest_error_at_last_refresh, last_did, ulLog, refLog, now>>

\* lines 389-392: Move(outcome) is sent
MoveSend(i) ==
    /\ IsAt(i, "move", "send")
    /\ CanSend(MaxEvents)
    /\ evQ' = Sent(tasks[i].msg, MaxEvents)
    /\ tasks' = SetTask(i, [tasks[i] EXCEPT !.pc = "clear", !.tag = 0])
    /\ UNCHANGED <<ctlVars, cmdQ, wk, update_req_inflight, move_req_inflight,
                   reqwest_error_at_last_refresh, last_did, ulLog, refLog, now>>

\* line 217: move_req_inflight.store(false), and the sub-task ends
MoveClear(i) ==
    /\ IsAt(i, "move", "clear")
    /\ move_req_inflight' = FALSE
    /\ tasks' = RemoveTask(i)
    /\ UNCHANGED <<ctlVars, cmdQ, evQ, wk, update_req_inflight,
                   reqwest_error_at_last_refresh, last_did, ulLog, refLog, now>>

-----------------------------------------------------------------------------
(* net/list_refresher.rs: ListRefresher as its owner may use it *)

\* the commands an owner may send
WorkerCmds ==
    { Cmd("UpdateNOW", NoMove), Cmd("UpdateList", NoMove), Cmd("RestartBoard", NoMove),
      Cmd("MakeMove", JSONMove(3, 6, 3, 6)), Cmd("InvalidateKill", NoMove) }

\* ListRefresher::send_msg(c), lines 257-259. Once run_loop has returned the
\* receiver is gone and the send is an Err that queues nothing. The commands
\* waiting and the sub-tasks alive stay within the bound on live sub-tasks
SendMsg(c) ==
    /\ ctl = "running"
    /\ wk # "done"
    /\ Len(cmdQ) + Len(tasks) < MaxLive
    /\ cmdQ' = Append(cmdQ, c)
    /\ UNCHANGED <<ctlVars, evQ, wkVars, now>>

\* ListRefresher::try_recv, lines 265-267, with an event waiting
TryRecv ==
    /\ ctl = "running"
    /\ evQ # <<>>
    /\ evQ' = Tail(evQ)
    /\ UNCHANGED <<ctlVars, cmdQ, wkVars, now>>

-----------------------------------------------------------------------------
(* The whole program *)

TaskIds == 1..MaxLive

Next ==
    \/ InitialUpdate
    \/ UpdateTick
    \/ KeyC
    \/ RightClick
    \/ \E sq \in ClickSquares : LeftClick(sq)
    \/ Render
    \/ Exit
    \/ Join
    \/ Tick
    \/ RecvUpdateNOW
    \/ RecvUpdateList
    \/ RecvRestartBoard
    \/ RecvMakeMove
    \/ RecvInvalidateKill
    \/ InvalidateReturns
    \/ \E i \in TaskIds : UpdLoad(i)
    \/ \E i \in TaskIds : UpdStore(i)
    \/ \E i \in TaskIds, rsp \in GetResponses, l \in SysLists : UpdGet(i, rsp, l)
    \/ \E i \in TaskIds : UpdHystLoad(i)
    \/ \E i \in TaskIds : UpdHystStore(i)
    \/ \E i \in TaskIds : UpdSend(i, MaxEvents)
    \/ \E i \in TaskIds : UpdClear(i)
    \/ \E i \in TaskIds : UpdTimer(i)
    \/ \E i \in TaskIds, rsp \in RestartResponses : RestartPost(i, rsp)
    \/ \E i \in TaskIds : MoveLoad(i)
    \/ \E i \in TaskIds : MoveReject(i)
    \/ \E i \in TaskIds : MoveStore(i)
    \/ \E i \in TaskIds : MoveTmp(i)
    \/ \E i \in TaskIds, rsp \in PostResponses : MovePost(i, rsp)
    \/ \E i \in TaskIds : MoveSend(i)
    \/ \E i \in TaskIds : MoveClear(i)

Spec == Init /\ [][Next]_vars

-----------------------------------------------------------------------------
(* The program while the user neither clicks nor presses a key: the initial  *)
(* update, the update_args ticks and the clock drive the refreshes           *)

RefreshNext ==
    \/ InitialUpdate
    \/ UpdateTick
    \/ Tick
    \/ RecvUpdateNOW
    \/ RecvUpdateList
    \/ \E i \in TaskIds : UpdLoad(i)
    \/ \E i \in TaskIds : UpdStore(i)
    \/ \E i \in TaskIds, rsp \in GetResponses, l \in ServerLists : UpdGet(i, rsp, l)
    \/ \E i \in TaskIds : UpdHystLoad(i)
    \/ \E i \in TaskIds : UpdHystStore(i)
    \/ \E i \in TaskIds : UpdSend(i, MaxBacklog)
    \/ \E i \in TaskIds : UpdClear(i)
    \/ \E i \in TaskIds : UpdTimer(i)

RefreshSpec == Init /\ [][RefreshNext]_vars

-----------------------------------------------------------------------------
(* The program while the user clicks on the board, all within one reading of *)
(* the clock: every interleaving of the move and refresh sub-tasks with the  *)
(* controller                                                                *)

MoveNext ==
    \/ InitialUpdate
    \/ UpdateTick
    \/ \E sq \in MoveSquares : LeftClick(sq)
    \/ Render
    \/ RecvUpdateNOW
    \/ RecvUpdateList
    \/ RecvMakeMove
    \/ \E i \in TaskIds : UpdLoad(i)
    \/ \E i \in TaskIds : UpdStore(i)
    \/ \E i \in TaskIds, rsp \in GetResponses, l \in MoveLists : UpdGet(i, rsp, l)
    \/ \E i \in TaskIds : UpdHystLoad(i)
    \/ \E i \in TaskIds : UpdHystStore(i)
    \/ \E i \in TaskIds : UpdSend(i, MaxEvents)
    \/ \E i \in TaskIds : UpdClear(i)
    \/ \E i \in TaskIds : UpdTimer(i)
    \/ \E i \in TaskIds : MoveLoad(i)
    \/ \E i \in TaskIds : MoveReject(i)
    \/ \E i \in TaskIds : MoveStore(i)
    \/ \E i \in TaskIds : MoveTmp(i)
    \/ \E i \in TaskIds, rsp \in PostResponses : MovePost(i, rsp)
    \/ \E i \in TaskIds : MoveSend(i)
    \/ \E i \in TaskIds : MoveClear(i)

MoveSpec == Init /\ [][MoveNext]_vars

-----------------------------------------------------------------------------
(* The worker under any owner: after the initial update, commands of every kind *)
(* sent in any order, events received or left waiting, then ChessGame::exit and *)
(* the drop of the refresher                                                    *)

\* the steps of run_loop
WorkerLoop ==
    \/ RecvUpdateNOW
    \/ RecvUpdateList
    \/ RecvRestartBoard
    \/ RecvMakeMove
    \/ RecvInvalidateKill
    \/ InvalidateReturns

\* the answers of the server while the worker is looked at on its own
WorkerGet == {"200", "transport_error"}
WorkerPost == {"2xx_not_taken", "412"}

\* the steps of the sub-tasks
SubTasks ==
    \/ \E i \in TaskIds : UpdLoad(i)
    \/ \E i \in TaskIds : UpdStore(i)
    \/ \E i \in TaskIds, rsp \in WorkerGet, l \in MoveLists : UpdGet(i, rsp, l)
    \/ \E i \in TaskIds : UpdHystLoad(i)
    \/ \E i \in TaskIds : UpdHystStore(i)
    \/ \E i \in TaskIds : UpdSend(i, MaxEvents)
    \/ \E i \in TaskIds : UpdClear(i)
    \/ \E i \in TaskIds : UpdTimer(i)
    \/ \E i \in TaskIds, rsp \in RestartResponses : RestartPost(i, rsp)
    \/ \E i \in TaskIds : MoveLoad(i)
    \/ \E i \in TaskIds : MoveReject(i)
    \/ \E i \in TaskIds : MoveStore(i)
    \/ \E i \in TaskIds : MoveTmp(i)
    \/ \E i \in TaskIds, rsp \in WorkerPost : MovePost(i, rsp)
    \/ \E i \in TaskIds : MoveSend(i)
    \/ \E i \in TaskIds : MoveClear(i)

WorkerNext ==
    \/ InitialUpdate
    \/ \E c \in WorkerCmds : SendMsg(c)
    \/ TryRecv
    \/ Exit
    \/ Join
    \/ WorkerLoop
    \/ SubTasks

WorkerSpec == Init /\ [][WorkerNext]_vars

\* The worker thread and the joining main thread are scheduled again and again,
\* and POST invalidate returns; nothing is assumed of the sub-tasks, whose HTTP
\* calls may never return
WorkerLive ==
    /\ WorkerSpec
    /\ WF_vars(WorkerLoop)
    /\ WF_vars(Join)

-----------------------------------------------------------------------------
(* Claims about the controller and the move sub-tasks (MoveSpec) *)

\* the controller takes a TmpMove event while its board awaits an outcome
TakesTmpWhilePending ==
    /\ ctl = "running"
    /\ evQ # <<>>
    /\ Head(evQ).type = "TmpMove"
    /\ board.state = NeedsMoveUpdate
    /\ evQ' = Tail(evQ)

C5_NeverDesynchronized ==
    lastErr \notin {"need move update", "need move to update with outcome"}

\* the move sub-tasks whose POST movepiece has been sent and not yet answered
PostsOutstanding ==
    { i \in 1..Len(tasks) : tasks[i].kind = "move" /\ tasks[i].pc = "post" }

\* C6: at most one POST movepiece call is outstanding at any time.
C6_OnePostOutstanding == Cardinality(PostsOutstanding) <= 1

\* C7: a MakeMove sub-task that reads the guard while an earlier move's POST
\* movepiece is outstanding goes on to send CouldntProcessMove, and so makes no
\* network call and sends no TmpMove.
C7_RejectedWhileOutstanding ==
    [][\A i \in 1..Len(tasks) :
          ( /\ IsAt(i, "move", "load")
            /\ PostsOutstanding # {}
            /\ Len(tasks') = Len(tasks)
            /\ tasks'[i].pc # "load" )
          => tasks'[i].pc = "reject"]_vars

-----------------------------------------------------------------------------
(* Claims about the refresh sub-tasks (RefreshSpec) *)

\* the refresh sub-tasks whose GET games/{id} has been sent and not yet answered
GetsOutstanding ==
    { i \in 1..Len(tasks) : tasks[i].kind = "update" /\ tasks[i].pc = "get" }

\* the refresh sub-tasks between the start of their GET and the clearing of the guard
HoldsRefreshGuard ==
    { i \in 1..Len(tasks) :
        /\ tasks[i].kind = "update"
        /\ tasks[i].pc \in {"get", "hyst_load", "hyst_store", "send", "clear"} }

\* C8: at most one GET games/{id} call is outstanding at any time, and the
\* refresh guard is set from the start of that call until the sub-task clears it.
C8_OneGetOutstanding ==
    /\ Cardinality(GetsOutstanding) <= 1
    /\ HoldsRefreshGuard # {} => update_req_inflight

\* the pairs of remembered UpdateList commands handled within one interval
PairsWithinGap ==
    { p \in (1..Len(ulLog)) \X (1..Len(ulLog)) :
        p[1] < p[2] /\ ulLog[p[2]].at - ulLog[p[1]].at <= Gap }

\* C9 as claimed: of two UpdateList commands handled within 500 ms exactly one
\* leads to a GET: exactly one of them passes the rate limiter and has its
\* sub-task spawned.
C9_ExactlyOne ==
    \A p \in PairsWithinGap : ulLog[p[1]].pass # ulLog[p[2]].pass

\* C9 as amended: of two UpdateList commands handled within 500 ms at most one
\* passes the rate limiter, so at most one sub-task is spawned and at most one
\* GET is sent for them; once one has passed, the later one is dropped.
C9_AtMostOne ==
    \A p \in PairsWithinGap : ~(ulLog[p[1]].pass /\ ulLog[p[2]].pass)

\* two UpdateList commands 300 ms apart: the first passed, the second was dropped
C9_Witness ==
    /\ Len(ulLog) = 2
    /\ ulLog[1].pass
    /\ ~ulLog[2].pass
    /\ ulLog[2].at - ulLog[1].at = ClockStep
    /\ ClockStep <= Gap

\* C10: a failed refresh emits NoConnectionList exactly when the refresh that
\* completed just before it did not fail (or there was none), and UseExisting
\* when that refresh failed too.
C10_Hysteresis ==
    [][\A i \in 1..Len(tasks) :
          ( /\ IsAt(i, "update", "send")
            /\ tasks[i].fail
            /\ Len(tasks') = Len(tasks)
            /\ tasks'[i].pc = "clear" )
          => LET preceding_failed == refLog # <<>> /\ refLog[Len(refLog)]
             IN  /\ tasks[i].msg = NoConnectionList <=> ~preceding_failed
                 /\ tasks[i].msg = UseExisting <=> preceding_failed]_vars

\* a refresh sub-task sends its event: the refresh completes
RefreshCompletes(i) ==
    /\ IsAt(i, "update", "send")
    /\ Len(tasks') = Len(tasks)
    /\ tasks'[i].pc = "clear"

\* C11: a refresh answered 2xx with a body that does not parse counts as a failed
\* refresh for the hysteresis: it emits NoConnectionList when the refresh that
\* completed just before it did not fail (or there was none), and UseExisting
\* when that refresh failed, in particular when it had an unparseable body too.
C11_UnparseableLikeNetworkError ==
    [][\A i \in 1..Len(tasks) :
          (RefreshCompletes(i) /\ tasks[i].unparsed)
          => LET preceding_failed == refLog # <<>> /\ refLog[Len(refLog)]
             IN  /\ tasks[i].fail
                 /\ ~preceding_failed => tasks[i].msg = NoConnectionList
                 /\ preceding_failed => tasks[i].msg = UseExisting]_vars

\* C17: one call of update_list takes every event that was queued when it was
\* called, leaving none of them in the channel.
C17_TickDrainsQueue ==
    [][UpdateTick => evQ' = <<>>]_vars

\* C18: every tick sends exactly one refresh command, UpdateList when the tick
\* held no user interaction, also when the event it took was rejected.
C18_OneRefreshPerTick ==
    [][UpdateTick => cmdQ' = Append(cmdQ, Cmd("UpdateList", NoMove))]_vars

-----------------------------------------------------------------------------
(* Claims about the outcome of a move (MoveSpec) *)

\* the outcome the HTTP result of POST movepiece calls for: Worked for a 2xx
\* status, Invalid for 412, CouldntProcessMove for anything else
ClaimedOutcomes(rsp) ==
    IF rsp \in {"2xx_taken", "2xx_not_taken"} THEN {"Worked_true", "Worked_false"}
    ELSE IF rsp = "412" THEN {"Invalid"}
    ELSE {"CouldntProcessMove"}

\* C13: the outcome a move sub-task emits is determined by the HTTP result of
\* its POST: Worked(captured) for any 2xx, Invalid for 412, CouldntProcessMove for
\* every other status and for a transport error.
C13_OutcomeOfResult ==
    [][\A i \in 1..Len(tasks) : \A rsp \in PostResponses :
          MovePost(i, rsp) =>
              /\ tasks'[i].msg.type = "Move"
              /\ tasks'[i].msg.outcome \in ClaimedOutcomes(rsp)]_vars

\* the controller takes the Invalid outcome of the move whose preview it applied,
\* no list having replaced the board since the preview
TakesInvalidOfPreview ==
    /\ ctl = "running"
    /\ evQ # <<>>
    /\ Head(evQ).type = "Move"
    /\ Head(evQ).outcome = "Invalid"
    /\ preview.by # 0
    /\ Head(evQ).by = preview.by
    /\ evQ' = Tail(evQ)

\* C14: a move whose POST is answered 412 reaches the controller as Invalid, and
\* once that outcome is processed the squares and the captured list are those
\* the preview of the move replaced, no NewList or NoConnectionList having been
\* processed in between.
C14_InvalidRestoresSnapshot ==
    [][/\ \A i \in 1..Len(tasks) :
              MovePost(i, "412") => tasks'[i].msg.outcome = "Invalid"
       /\ TakesInvalidOfPreview =>
              /\ board'.pieces = preview.pieces
              /\ board'.taken = preview.taken]_vars

\* the controller sends MakeMove: the second press of mouse_input, on square sq
SendsMakeMove(sq) ==
    /\ last_pressed.on
    /\ LeftClick(sq)

\* C16: when the controller sends MakeMove(m) it has already applied the move:
\* its board awaits an outcome, with m as the move of its pending snapshot.
C16_PreviewBeforeSend ==
    [][\A sq \in MoveSquares :
          SendsMakeMove(sq) =>
              /\ board.state = NeedsMoveUpdate
              /\ IsSome(board.previous)
              /\ Unwrap(board.previous).m =
                     JSONMove(last_pressed.x, last_pressed.y, sq.x, sq.y)]_vars

-----------------------------------------------------------------------------
(* Claims about shutdown (WorkerSpec, WorkerLive) *)

\* run_loop has taken InvalidateKill
ShutDown == wk \in {"invalidate", "done"}

\* the sub-task run_loop spawns for command c
SpawnedFor(c) ==
    CASE c.type \in {"UpdateNOW", "UpdateList"} -> Task("update", "load", NoMove)
      [] c.type = "RestartBoard" -> Task("restart", "post", NoMove)
      [] OTHER -> Task("move", "load", c.m)

\* C19: once run_loop has taken InvalidateKill it takes no further command and
\* spawns no further sub-task, whatever is queued behind; until then commands
\* are taken from the head of the channel, one at a time, each handled (its
\* sub-task spawned) as it is taken.
C19_NothingAfterShutdown ==
    [][/\ ShutDown =>
              /\ wk' \in {"invalidate", "done"}
              /\ Len(cmdQ') >= Len(cmdQ)
              /\ SubSeq(cmdQ', 1, Len(cmdQ)) = cmdQ
              /\ Len(tasks') <= Len(tasks)
       /\ Len(cmdQ') < Len(cmdQ) =>
              /\ wk = "recv"
              /\ cmdQ' = Tail(cmdQ)
              /\ Head(cmdQ).type = "InvalidateKill" <=> wk' = "invalidate"
              /\ Head(cmdQ).type \in {"UpdateNOW", "RestartBoard", "MakeMove"}
                     => tasks' = Append(tasks, SpawnedFor(Head(cmdQ)))
              /\ Len(tasks') > Len(tasks)
                     => tasks' = Append(tasks, SpawnedFor(Head(cmdQ)))]_vars

\* run_loop has returned with a command still queued behind InvalidateKill and
\* a sub-task of an earlier command still alive
C19_Witness ==
    /\ wk = "done"
    /\ cmdQ # <<>>
    /\ tasks # <<>>

\* C20: once ChessGame::exit has sent InvalidateKill and the refresher is being
\* dropped, run_loop returns and the join in Drop returns, whatever sub-tasks
\* are still in flight.
C20_JoinReturns == (ctl = "joining") ~> (ctl = "joined")

\* the join has returned while sub-tasks were still in flight
C20_Witness ==
    /\ ctl = "joined"
    /\ wk = "done"
    /\ tasks # <<>>

-----------------------------------------------------------------------------
(* Claims about where the network calls run (WorkerSpec) *)

\* C22: every network call is made by a spawned sub-task; the thread of
\* run_loop is never inside one (POST invalidate included), so it is never
\* blocked on the network.
C22_NetworkOnSubTasks == wk # "invalidate"

\* C29: a RestartBoard command, taken by run_loop and carried out by its
\* sub-task whatever the answer to POST newgame, sends no event and changes
\* neither in-flight guard, nor the refresh timer, nor the hysteresis flag.
C29_RestartIsSilent ==
    [][(\/ RecvRestartBoard
        \/ \E i \in TaskIds, rsp \in RestartResponses : RestartPost(i, rsp))
          => /\ evQ' = evQ
             /\ update_req_inflight' = update_req_inflight
             /\ move_req_inflight' = move_req_inflight
             /\ last_did' = last_did
             /\ reqwest_error_at_last_refresh' = reqwest_error_at_last_refresh]_vars

\* a restart sub-task is waiting for its answer next to a refresh that holds
\* its guard, and no event has been sent
C29_Witness ==
    /\ \E i \in 1..Len(tasks) : tasks[i].kind = "restart"
    /\ \E j \in 1..Len(tasks) : tasks[j].kind = "update" /\ tasks[j].pc = "get"
    /\ update_req_inflight
    /\ evQ = <<>>

-----------------------------------------------------------------------------
(* The worker under an owner that makes one move at a time: MakeMove is sent *)
(* only once the outcome of every earlier move has been received             *)

\* a move has been sent whose outcome the owner has not received yet
MovePending ==
    \/ \E k \in 1..Len(cmdQ) : cmdQ[k].type = "MakeMove"
    \/ \E i \in 1..Len(tasks) : tasks[i].kind = "move" /\ tasks[i].pc # "clear"
    \/ \E k \in 1..Len(evQ) : evQ[k].type \in {"TmpMove", "Move"}

\* send_msg(MakeMove(m)) by such an owner
SendMoveInTurn ==
    /\ ~MovePending
    /\ SendMsg(Cmd("MakeMove", JSONMove(3, 6, 3, 6)))

TurnNext ==
    \/ InitialUpdate
    \/ SendMoveInTurn
    \/ TryRecv
    \/ RecvUpdateNOW
    \/ RecvMakeMove
    \/ \E i \in TaskIds : UpdLoad(i)
    \/ \E i \in TaskIds : UpdStore(i)
    \/ \E i \in TaskIds, rsp \in WorkerGet, l \in MoveLists : UpdGet(i, rsp, l)
    \/ \E i \in TaskIds : UpdHystLoad(i)
    \/ \E i \in TaskIds : UpdHystStore(i)
    \/ \E i \in TaskIds : UpdSend(i, MaxEvents)
    \/ \E i \in TaskIds : UpdClear(i)
    \/ \E i \in TaskIds : UpdTimer(i)
    \/ \E i \in TaskIds : MoveLoad(i)
    \/ \E i \in TaskIds : MoveReject(i)
    \/ \E i \in TaskIds : MoveStore(i)
    \/ \E i \in TaskIds : MoveTmp(i)
    \/ \E i \in TaskIds, rsp \in WorkerPost : MovePost(i, rsp)
    \/ \E i \in TaskIds : MoveSend(i)
    \/ \E i \in TaskIds : MoveClear(i)

TurnSpec == Init /\ [][TurnNext]_vars

\* C30: the move-in-flight guard is cleared before the outcome is emitted, so a
\* MakeMove sent after the outcome of the move before it was received is never
\* answered CouldntProcessMove because of that move: with a server that answers
\* every POST movepiece with a success or 412, no CouldntProcessMove is emitted.
C30_NoStaleReject ==
    \A k \in 1..Len(evQ) :
        ~(evQ[k].type = "Move" /\ evQ[k].outcome = "CouldntProcessMove")

-----------------------------------------------------------------------------
(* Claims about an outage (RefreshSpec) *)

\* the one event waiting is the UseExisting of a refresh that failed: the event
\* sent last is the last one of the channel, and refLog tells that it failed
FailedNoChangeWaits ==
    /\ evQ = <<UseExisting>>
    /\ refLog = <<TRUE>>

\* C23 as stated: after the controller has processed the UseExisting of a
\* refresh that failed after a failed refresh, its board is not the placeholder.
C23_NoChangeShowsLastGood ==
    [][(UpdateTick /\ FailedNoChangeWaits) => board' # no_connection_list]_vars

\* C23: a failed refresh that finds the hysteresis flag set emits UseExisting,
\* and the controller's board after processing UseExisting is the board it had
\* before: the placeholder where NoConnectionList had put it, a server list
\* otherwise.
C23_NoChangeKeepsBoard ==
    [][/\ \A i \in TaskIds :
              (UpdHystLoad(i) /\ reqwest_error_at_last_refresh)
                  => tasks'[i].msg = UseExisting
       /\ (UpdateTick /\ evQ # <<>> /\ Head(evQ).type = "UseExisting")
              => board' = board]_vars

\* the UseExisting of a failed refresh is about to be processed by a controller
\* whose board is the placeholder of the failure before
C23_Witness ==
    /\ FailedNoChangeWaits
    /\ ctl = "running"
    /\ board = no_connection_list
    /\ reqwest_error_at_last_refresh

-----------------------------------------------------------------------------
(* The worker with a server that may leave a call unanswered for ever: there is *)
(* no timeout on client.get(..).send() or client.post(..).send()               *)

\* line 277-279: GET games/{id} of sub-task i never returns
UpdGetHangs(i) ==
    /\ IsAt(i, "update", "get")
    /\ tasks' = SetTask(i, [tasks[i] EXCEPT !.pc = "hung"])
    /\ UNCHANGED <<ctlVars, cmdQ, evQ, wk, update_req_inflight, move_req_inflight,
                   reqwest_error_at_last_refresh, last_did, ulLog, refLog, now>>

\* lines 356-359: POST movepiece of sub-task i never returns
MovePostHangs(i) ==
    /\ IsAt(i, "move", "post")
    /\ tasks' = SetTask(i, [tasks[i] EXCEPT !.pc = "hung"])
    /\ UNCHANGED <<ctlVars, cmdQ, evQ, wk, update_req_inflight, move_req_inflight,
                   reqwest_error_at_last_refresh, last_did, ulLog, refLog, now>>

\* the commands sent while a call hangs
HangCmds == { Cmd("UpdateNOW", NoMove), Cmd("MakeMove", JSONMove(3, 6, 3, 6)) }

\* the steps of run_loop for these commands
HangLoop ==
    \/ RecvUpdateNOW
    \/ RecvMakeMove

\* the steps of refresh sub-task i when its GET is answered
HangUpdOf(i) ==
    \/ UpdLoad(i)
    \/ UpdStore(i)
    \/ \E rsp \in WorkerGet, l \in MoveLists : UpdGet(i, rsp, l)
    \/ UpdHystLoad(i)
    \/ UpdHystStore(i)
    \/ UpdSend(i, MaxEvents)
    \/ UpdClear(i)
    \/ UpdTimer(i)

HangUpd == \E i \in TaskIds : HangUpdOf(i)

\* the steps of move sub-task i when its POST is answered
HangMoveOf(i) ==
    \/ MoveLoad(i)
    \/ MoveReject(i)
    \/ MoveStore(i)
    \/ MoveTmp(i)
    \/ \E rsp \in WorkerPost : MovePost(i, rsp)
    \/ MoveSend(i)
    \/ MoveClear(i)

HangMove == \E i \in TaskIds : HangMoveOf(i)

HangNext ==
    \/ InitialUpdate
    \/ \E c \in HangCmds : SendMsg(c)
    \/ TryRecv
    \/ HangLoop
    \/ HangUpd
    \/ HangMove
    \/ \E i \in TaskIds : UpdGetHangs(i)
    \/ \E i \in TaskIds : MovePostHangs(i)

HangSpec == Init /\ [][HangNext]_vars

\* The thread of run_loop and the thread of every sub-task are scheduled again
\* and again (each sub-task is a thread of its own, std::thread::spawn), the
\* owner keeps polling the event channel (update_list on every update event),
\* and a call that does not hang is answered
HangLive ==
    /\ HangSpec
    /\ WF_vars(HangLoop)
    /\ \A i \in TaskIds : WF_vars(HangUpdOf(i))
    /\ \A i \in TaskIds : WF_vars(HangMoveOf(i))
    /\ WF_vars(TryRecv)

\* As HangLive, with the sub-tasks never kept from sending: Sender::send does
\* not block, so a sub-task about to send waits in the model only while the
\* bounded channel is full, which the polling owner ends again and again
SendLive ==
    /\ HangSpec
    /\ WF_vars(HangLoop)
    /\ \A i \in TaskIds : SF_vars(HangUpdOf(i))
    /\ \A i \in TaskIds : SF_vars(HangMoveOf(i))
    /\ WF_vars(TryRecv)

-----------------------------------------------------------------------------
(* Claims about hung calls (SendLive) *)

\* a GET games/{id}, a POST movepiece that never returns
GetHung == \E i \in 1..Len(tasks) : tasks[i].kind = "update" /\ tasks[i].pc = "hung"
PostHung == \E i \in 1..Len(tasks) : tasks[i].kind = "move" /\ tasks[i].pc = "hung"

\* a command of the given type has been accepted by send_msg
Accepted(type) == \E k \in 1..Len(cmdQ) : cmdQ[k].type = type

\* the outcome the server gave a move, the event of a refresh, is in the channel
ServerOutcomeSent ==
    \E k \in 1..Len(evQ) :
        evQ[k].type = "Move" /\ evQ[k].outcome \in {"Worked_false", "Invalid"}
RefreshEventSent ==
    \E k \in 1..Len(evQ) : evQ[k].type \in {"NewList", "UseExisting", "NoConnectionList"}

\* no sub-task of the kind is alive: no request of the class is in flight
NoneInFlight(kind) == \A i \in 1..Len(tasks) : tasks[i].kind # kind

\* C21: a call that never returns blocks its own request class only. While a
\* GET games/{id} hangs, a MakeMove accepted with no move in flight gets the
\* outcome the server gives it (unless a POST hangs); while a POST movepiece
\* hangs, an UpdateNOW accepted with no refresh in flight is dispatched and a
\* refresh sends its event (unless a GET hangs).
C21_HangBlocksOwnClass ==
    /\ (GetHung /\ Accepted("MakeMove") /\ NoneInFlight("move") /\ ~ServerOutcomeSent)
           ~> (ServerOutcomeSent \/ PostHung)
    /\ (PostHung /\ Accepted("UpdateNOW") /\ NoneInFlight("update")
            /\ ~RefreshEventSent)
           ~> (RefreshEventSent \/ GetHung)

\* a GET hangs with the refresh guard held, and a move made meanwhile has got
\* the outcome the server gave it
C21_Witness ==
    /\ GetHung
    /\ update_req_inflight
    /\ Len(tasks) = 2
    /\ tasks[1].kind = "update"
    /\ tasks[2].kind = "move"
    /\ tasks[2].pc = "clear"
    /\ ServerOutcomeSent

-----------------------------------------------------------------------------
(* Claims about the previewed move and the board it is applied to (MoveSpec) *)

\* the controller takes the event at the head of the channel
TakesEvent == evQ # <<>> /\ evQ' = Tail(evQ) /\ ctl = "running"

\* C31: whenever the controller applies a TmpMove to its board there is a piece
\* on the from square of the move, whatever lists and placeholders have
\* replaced the board since the piece was selected: make_move never reaches the
\* exit of its precheck.
C31_PieceAtFrom ==
    [][(TakesEvent /\ Head(evQ).type = "TmpMove" /\ board.state = CanMovePiece)
          => /\ piece_exists_at_location(board, Unwrap(current_coords(Head(evQ).m)))
             /\ ctl' # "dead"]_vars

-----------------------------------------------------------------------------
(* Claims about the refresh timer (RefreshSpec) *)

\* the remembered UpdateList commands that passed the rate limiter
Passed == { k \in 1..Len(ulLog) : ulLog[k].pass }

\* when the latest of them passed: the start of the most recent refresh that an
\* UpdateList started
LastPassAt == ulLog[CHOOSE k \in Passed : \A j \in Passed : j <= k].at

\* C32 as stated: the interval of UpdateList is measured from the start of the
\* most recent refresh and not from its completion: an UpdateList passes the
\* rate limiter exactly when more than the interval has gone by since that start.
C32_MeasuredFromStart ==
    [][(RecvUpdateList /\ Passed # {})
          => (Len(tasks') > Len(tasks) <=> now - LastPassAt > Gap)]_vars

\* C32: the interval of UpdateList is measured from the latest restart of the
\* timer, and the timer is restarted both when an UpdateList passes (the start
\* of its refresh) and when a refresh sub-task that had set the guard ends (its
\* completion): an UpdateList passes exactly when more than the interval has
\* gone by since the later of the two.
C32_MeasuredFromRestart ==
    [][/\ RecvUpdateList
              => /\ Len(tasks') > Len(tasks) <=> now - last_did > Gap
                 /\ last_did' = IF now - last_did > Gap THEN now ELSE last_did
       /\ \A i \in TaskIds : UpdTimer(i) => last_did' = now]_vars

\* an UpdateList was dropped 600 ms after the UpdateList before it had started
\* a refresh: that refresh had ended less than 500 ms before
C32_Witness ==
    /\ Len(ulLog) = 2
    /\ ulLog[1].pass
    /\ ~ulLog[2].pass
    /\ ulLog[2].at - ulLog[1].at > Gap
    /\ now - last_did <= Gap

\* C33: processing UpdateNOW restarts the refresh timer, so an UpdateList that
\* run_loop takes within the interval after it took an UpdateNOW is dropped and
\* spawns no sub-task. The first command run_loop takes is the UpdateNOW of the
\* initial update, at a reading of the clock from 0 to now.
C33_UpdateNowRestartsTimer ==
    [][(RecvUpdateList /\ now <= Gap) => tasks' = tasks]_vars

-----------------------------------------------------------------------------
(* Claims about the events of a refresh (RefreshSpec) *)

\* the refresh sub-tasks whose GET has been sent and whose event has not
CallsWithoutEvent ==
    { i \in 1..Len(tasks) :
        /\ tasks[i].kind = "update"
        /\ tasks[i].pc \in {"get", "hyst_load", "hyst_store", "send"} }

\* the events a refresh can end in
RefreshEvents ==
    {UseExisting, NoConnectionList} \cup { NewList(l) : l \in ServerLists }

\* C34: every GET games/{id} that is started ends in exactly one event (NewList,
\* UseExisting or NoConnectionList), and a refresh command that is dropped, by
\* the rate limiter or because the guard is set, starts no GET and sends no
\* event. Step by step: a GET is started without an event being sent; a started
\* GET leaves the calls that still owe their event exactly when one refresh
\* event is sent; and no other step sends anything.
C34_OneEventPerCall ==
    [][LET before == Cardinality(CallsWithoutEvent)
           after == Cardinality(CallsWithoutEvent')
       IN  /\ after \in {before - 1, before, before + 1}
           /\ after = before + 1 => evQ' = evQ
           /\ after = before - 1 => \E e \in RefreshEvents : evQ' = Append(evQ, e)
           /\ after = before => (evQ' = evQ \/ (evQ # <<>> /\ evQ' = Tail(evQ)))
           /\ \A i \in TaskIds : (UpdLoad(i) /\ update_req_inflight) => after = before
           /\ (RecvUpdateList /\ ~can_do) => (tasks' = tasks /\ after = before)]_vars

\* a refresh has sent its event and ended, an UpdateList has been dropped by the
\* rate limiter, and no call owes an event
C34_Witness ==
    /\ refLog # <<>>
    /\ \E k \in 1..Len(ulLog) : ~ulLog[k].pass
    /\ Len(evQ) = 1
    /\ tasks = <<>>

-----------------------------------------------------------------------------
(* Claims about the events of a move (SendLive) *)

\* the move sub-tasks at one of the given positions
MovesAt(pcs) ==
    { i \in 1..Len(tasks) : tasks[i].kind = "move" /\ tasks[i].pc \in pcs }

\* the move sub-tasks that are about to send TmpMove, that have sent TmpMove
\* and owe the outcome, that are about to answer CouldntProcessMove
ToPreview == Cardinality(MovesAt({"tmp"}))
OwesOutcome == Cardinality(MovesAt({"post", "send", "hung"}))
ToReject == Cardinality(MovesAt({"reject"}))

\* this step sends one event of the given type
Emits(type) ==
    /\ Len(evQ') = Len(evQ) + 1
    /\ SubSeq(evQ', 1, Len(evQ)) = evQ
    /\ evQ'[Len(evQ')].type = type

\* a Move event waits in the channel
OutcomeWaits == \E k \in 1..Len(evQ) : evQ[k].type = "Move"

\* C35: a MakeMove that passes the guard sends TmpMove(m) and then, once its
\* POST has returned, exactly one Move(outcome); a MakeMove that is rejected
\* sends exactly one Move(CouldntProcessMove) and no TmpMove; so every MakeMove
\* whose call returns yields exactly one outcome event, which the channel hands
\* to the controller after the TmpMove. Step by step: TmpMove is sent exactly
\* when a sub-task goes from before its preview to owing its outcome; Move is
\* sent exactly when a sub-task stops owing its outcome or its rejection; and
\* an accepted MakeMove leads to a Move event unless a POST hangs.
C35_OneOutcomePerMove ==
    /\ [][/\ Emits("TmpMove") <=> ToPreview' = ToPreview - 1
          /\ Emits("TmpMove") => (OwesOutcome' = OwesOutcome + 1 /\ ToReject' = ToReject)
          /\ Emits("Move") <=> OwesOutcome' + ToReject' = OwesOutcome + ToReject - 1
          /\ (Emits("Move") /\ ToReject' < ToReject)
                 => evQ'[Len(evQ')].outcome = "CouldntProcessMove"
          /\ Emits("TmpMove") =>
                 \E i \in MovesAt({"tmp"}) : evQ'[Len(evQ')].m = tasks[i].m]_vars
    /\ (Accepted("MakeMove") /\ ~OutcomeWaits) ~> (OutcomeWaits \/ PostHung)

\* TmpMove has been received, the outcome of the server waits in the channel,
\* and the sub-task that sent both has nothing left to send
C35_Witness ==
    /\ evQ = <<[Move("Invalid") EXCEPT !.by = 1]>>
    /\ MovesAt({"clear"}) # {}
    /\ ToPreview + OwesOutcome + ToReject = 0

-----------------------------------------------------------------------------
(* Claims about whose outcome the board takes (MoveSpec) *)

\* C36: every Move(outcome) the controller applies to a board with a pending
\* move was sent by the sub-task whose TmpMove made that move pending; the
\* CouldntProcessMove of a rejected MakeMove, which no TmpMove preceded, is not
\* applied to the move still in flight, nor is the outcome of another move.
C36_OutcomeOfPendingMove ==
    [][(TakesEvent /\ Head(evQ).type = "Move" /\ board.state = NeedsMoveUpdate)
          => (Head(evQ).by # 0 /\ Head(evQ).by = preview.by)]_vars

-----------------------------------------------------------------------------
(* Claims about the end of an outage (RefreshSpec) *)

\* the one event waiting is that of a refresh the server answered: the NewList
\* of a 200 with a list that new_json accepts, or the UseExisting of a 208
AnsweredRefreshWaits ==
    /\ Len(evQ) = 1
    /\ refLog = <<FALSE>>
    /\ \/ evQ[1].type = "UseExisting"
       \/ evQ[1].type = "NewList" /\ evQ[1].l \in ValidLists

\* C37: once the controller has processed the event of a refresh that the
\* server answered with 200 and a valid list or with 208, its board is not the
\* placeholder of an outage.
C37_AnswerRemovesPlaceholder ==
    [][(UpdateTick /\ AnsweredRefreshWaits) => board' # no_connection_list]_vars

-----------------------------------------------------------------------------
(* Claims about the number of pieces (BoardSpec) *)

\* the number of pieces of board b: those on squares and those in taken
PieceTotal(b) ==
    Cardinality({i \in 0..63 : IsSome(b.pieces[i])}) + Len(b.taken)

\* C38: make_move(m) followed by move_worked(true) conserves the pieces: the
\* pieces on squares plus the pieces in taken are as many after the commit as
\* before the move, from = to included, and what the commit appends to taken is
\* not the piece that stands on the square of the move.
C38_CommitConservesPieces ==
    (lastOp.op = "move_worked" /\ lastOp.t) =>
        /\ PieceTotal(board) = PieceTotal(snap)
        /\ Len(board.taken) > Len(snap.taken) => FromSq # ToSq

-----------------------------------------------------------------------------
(* A ListRefresher whose owner drops it without ChessGame::exit: ListRefresher *)
(* is public, and an owner that unwinds or returns early drops it as it is     *)

\* Drop for ListRefresher, lines 417-426, entered with no InvalidateKill sent by
\* the owner: the handle is taken and joined
DropRefresher ==
    /\ ctl = "running"
    /\ ctl' = "joining"
    /\ UNCHANGED <<board, last_pressed, snap, lastOp, preview, lastErr, cmdQ, evQ,
                   wkVars, now>>

\* The one Sender of the command channel is the field tx of ListRefresher
\* (lines 82-91). Fields are dropped after Drop::drop has returned, so the
\* channel is closed only once the join has returned.
ChannelClosed == ctl = "joined"

\* line 120: recv() is an Err when the channel is empty and closed, and the
\* loop of run_loop ends. The join returns only once run_loop has, so no
\* behaviour of the program has this step; it is no disjunct of DropNext.
RecvErr ==
    /\ wk = "recv"
    /\ cmdQ = <<>>
    /\ ChannelClosed
    /\ wk' = "done"
    /\ UNCHANGED <<ctlVars, cmdQ, evQ, tasks, update_req_inflight, move_req_inflight,
                   reqwest_error_at_last_refresh, last_did, ulLog, refLog, now>>

DropNext ==
    \/ WorkerNext
    \/ DropRefresher

DropSpec == Init /\ [][DropNext]_vars

\* the worker thread and the joining thread are scheduled again and again
DropLive ==
    /\ DropSpec
    /\ WF_vars(WorkerLoop)
    /\ WF_vars(Join)

\* C39: dropping a ListRefresher terminates: once Drop has begun to join the
\* worker thread, with or without an InvalidateKill sent before, run_loop
\* returns and the join returns.
C39_DropTerminates == (ctl = "joining") ~> (ctl = "joined" /\ wk = "done")

=============================================================================
